---- MODULE Spec2Model ----
(***************************************************************************)
(* Real-time transcription pipeline and recording lifecycle of             *)
(* maity_desktop (frontend/src-tauri/src/audio).                           *)
(*                                                                         *)
(* The specifications share the variables below:                           *)
(*   SpecPipe   - one transcription task: dispatcher, accumulators,        *)
(*                bounded work channel, worker, completion counters and    *)
(*                the final verification loop (transcription/worker.rs);   *)
(*   FairPipe   - SpecPipe with every tokio task eventually scheduled;     *)
(*   SpecStream - the two persistent streaming connections with their      *)
(*                reader tasks, generations and the global sequence        *)
(*                counter (transcription/deepgram_provider.rs, engine.rs); *)
(*   SpecLife   - start/stop of recordings over the global recording       *)
(*                state (recording_lifecycle.rs, recording_helpers.rs).    *)
(* Durations are counted in units of 0.05 s (800 samples at 16 kHz).       *)
(***************************************************************************)
EXTENDS Integers, Sequences, FiniteSets, TLC

VARIABLES
    \* ---- transcription task (worker.rs: start_transcription_task) ----
    taskPc,                 \* "init" | "dispatch" | "join" | "verify" | "done"
    captureOpen,            \* the capture side of transcription_receiver is alive
    captured,               \* chunks the capture side has produced so far
    mic_accumulator,        \* ChunkAccumulator of the microphone
    sys_accumulator,        \* ChunkAccumulator of the system audio
    dispPc,                 \* dispatcher: "recv" | "queue" | "send"
    dispOut,                \* accumulated chunks still to dispatch in this iteration
    dispBreak,              \* the loop breaks once dispOut is dispatched
    work,                   \* bounded work channel (work_sender / work_receiver)
    senderOpen,             \* work_sender not yet dropped
    chunks_queued,
    chunks_completed,
    chunks_dropped,
    input_finished,
    workerPc,               \* "none" | "recv" | "busy" | "sleep" | "exited" | "panicked"
    workerChunk,            \* the chunk the worker holds
    workerSeq,              \* sequence_id the worker drew for its update
    verification_attempts,
    chunks_lost_in_processing,  \* as reported by transcript-chunk-loss-detected
    taskEvents,             \* events the task emitted: name -> count
    \* ---- emission shared by workers and reader tasks ----
    SEQUENCE_COUNTER,
    updates,                \* transcript-update events in emission order
    SPEECH_DETECTED_EMITTED,
    speech_detected,        \* speech-detected events since the last recording start
    mixed_transcribed,      \* a Mixed chunk was handed to an engine's transcribe
    \* ---- transcription engine and its streaming connections ----
    engine,                 \* "local" (Parakeet, Canary) | "provider" (Provider) |
                            \* "streaming" (Deepgram)
    fed,                    \* chunks handed to the worker of a streaming session
    persistent_ws,          \* per connection: 0 (None) or the generation of the socket
    is_connected,
    reader_handle,          \* per connection: 0 (None) or the generation of the reader
    connection_generation,
    chunk_info_queue,
    in_flight,              \* per connection: chunks sent on the socket whose
                            \* final result the reader has not read yet
    rd,                     \* reader tasks, per connection and generation
    txPc,                   \* transcribe call: "idle" | "connect" | "send" | "reconnect" | "resend"
    txAttempt,              \* attempt number inside ensure_connected
    interim_text,           \* per connection: TRUE when the buffer holds text
    closePc,                \* per connection: close_persistent_stream call,
                            \* [pc: "idle" | "wait" | "closed", handle]
    \* ---- recording lifecycle ----
    IS_RECORDING,
    RECORDING_MANAGER,      \* 0 (None) or the session of the stored manager
    TRANSCRIPTION_TASK,     \* 0 (None) or the session of the stored task handle
    TRANSCRIPT_LISTENER_ID, \* 0 (None) or the stored listener id
    listeners,              \* registered transcript-update listeners
    startPc, startRet, startCalls,
    startDevices,           \* devices a start call resolved: "none" | "mic+sys" |
                            \* "mic" | "sys" | "neither"
    stopPc, stopRet, stopCalls,
    stopMgr,                \* manager_for_cleanup of a stop call
    stopTask,               \* task handle a stop call waits for
    sessCapture,            \* per session: "none" | "open" | "closed"
    sessTask,               \* per session: "none" | "starting" | "running" |
                            \* "failed" | "finished"
    emittedBy,              \* per session: sequence ids its task emitted
    history,                \* per session: segments of its manager
    finalized,              \* sessions whose recording was saved
    lifecycleEvents,
    shutdownLog,            \* stages of recording-shutdown-progress and
                            \* recording-stopped emitted since the last stop began
    progress_task,          \* progress task of the stop call that waits for the
                            \* task of a session:
                            \* "none" | "sleep" | "woken" | "aborted"
    drainExpired,           \* sessions whose task a stop call waited for until
                            \* the 600 s timeout
    transcript_provider,    \* provider of the stored transcript configuration
    validatedProvider,      \* per start call: the provider its validation read
    sessProvider,           \* per session: the provider validated at start, the
                            \* engine its task initialised, the engine unloaded
                            \* at stop ("none" until then)
    \* ---- a ChunkAccumulator followed call by call (worker.rs 31-120) ----
    accumulator,            \* its buffer, in blocks of 800 samples, and counter
    added,                  \* every block handed to add, in order
    returned,               \* every chunk a call has returned, in order
    last_out,               \* what the last call returned (<<>> for None)
    pausePc,                \* pause_recording / resume_recording call:
                            \* "idle" | "pause" | "resume"
    pauseRet, pauseCalls,
    sessPaused,             \* sessions whose manager is paused
    PROXY_CONFIG_CACHE,     \* "none" | "valid": what get_cached_proxy_config sees
    sessStreams             \* per session: connections whose persistent_ws is Some

pipeVars == <<taskPc, captureOpen, captured, mic_accumulator, sys_accumulator,
              dispPc, dispOut, dispBreak, work, senderOpen, chunks_queued,
              chunks_completed, chunks_dropped, input_finished, workerPc,
              workerChunk, workerSeq, verification_attempts, chunks_lost_in_processing, taskEvents>>
speechVars == <<SPEECH_DETECTED_EMITTED, speech_detected>>
emitVars == <<SEQUENCE_COUNTER, updates, speechVars, mixed_transcribed>>
streamVars == <<engine, fed, persistent_ws, is_connected, reader_handle,
                connection_generation, chunk_info_queue, in_flight, rd, txPc,
                txAttempt, interim_text, closePc>>

lifeVars == <<IS_RECORDING, RECORDING_MANAGER, TRANSCRIPTION_TASK,
              TRANSCRIPT_LISTENER_ID, listeners, startPc, startRet, startCalls,
              stopPc, stopRet, stopCalls, stopMgr, stopTask, sessCapture,
              sessTask, emittedBy, history, finalized, lifecycleEvents,
              PROXY_CONFIG_CACHE, sessStreams, startDevices, shutdownLog,
              progress_task, drainExpired, pausePc, pauseRet, pauseCalls,
              sessPaused, transcript_provider, validatedProvider,
              sessProvider>>
accVars == <<accumulator, added, returned, last_out>>

vars == <<pipeVars, emitVars, streamVars, lifeVars, accVars>>

----------------------------------------------------------------------------
(* Bounds of the model *)

MaxChunks == 3          \* chunks the capture side produces in one session
WorkChannelCap == 1     \* slots of the bounded work channel (2000 in the source)
MaxFed == 2             \* chunks fed to the worker of a streaming session
MaxConnects == 2        \* connections the streaming instances open in one run
MaxSeq == 2             \* sequence ids drawn in one run
MaxStartCalls == 2      \* calls of start_recording in one run
MaxStopCalls == 2       \* calls of stop_recording in one run

(* Program constants *)

MAX_VERIFICATION_ATTEMPTS == 10
MinDurationUnits == 16      \* min_duration of the Medium tier, 0.8 s
MaxDurationUnits == 80      \* max_duration of the Medium tier, 4.0 s
TimeoutFloorUnits == 10     \* check_timeout flushes only >= 0.5 s
MinimumSampleUnits == 2     \* minimum_samples = 1600 of a streaming transcribe
MAX_RECONNECT_ATTEMPTS == 3

Devices == {"Microphone", "System", "Mixed"}
ChunkLens == {6, 10}        \* lengths of captured chunks (0.3 s, 0.5 s)
StreamLens == {1, 10}       \* lengths of the chunks of a streaming session

NoChunk == [device |-> "Mixed", len |-> 0, chunk_id |-> 0]

TaskEventNames == {"transcription-error", "transcription-warning",
                   "transcription-queue-complete", "transcription-summary",
                   "transcript-chunk-loss-detected"}

Bump(ev, name) == [ev EXCEPT ![name] = @ + 1]

----------------------------------------------------------------------------
(* ChunkAccumulator (worker.rs 31-120).  An accumulator is a record         *)
(* [buffer, device_type, next_chunk_id, min_duration, max_duration]; the   *)
(* operators return the new accumulator and the chunk handed back          *)
(* (out = <<>> for None).                                                  *)

\* ChunkAccumulator::new(min_duration_secs, max_duration_secs, _) (51-63)
AccWith(min, max) ==
    [buffer |-> 0, device_type |-> "Mixed", next_chunk_id |-> 0,
     min_duration |-> min, max_duration |-> max]

\* the accumulators of the hardware tier (476-484)
AccNew == AccWith(MinDurationUnits, MaxDurationUnits)

AccFlush(acc) ==
    IF acc.buffer = 0
    THEN [acc |-> acc, out |-> <<>>]
    ELSE [acc |-> [acc EXCEPT !.buffer = 0, !.next_chunk_id = @ + 1],
          out |-> <<[device |-> acc.device_type, len |-> acc.buffer,
                     chunk_id |-> acc.next_chunk_id]>>]

\* an add that hands the buffer back after every chunk
AccAddFlushAlways(acc, chunk) ==
    LET a1 == IF acc.buffer = 0
              THEN [acc EXCEPT !.device_type = chunk.device]
              ELSE acc
        a2 == [a1 EXCEPT !.buffer = @ + chunk.len]
    IN  AccFlush(a2)

AccAdd(acc, chunk) ==
    LET a1 == IF acc.buffer = 0
              THEN [acc EXCEPT !.device_type = chunk.device]
              ELSE acc
        a2 == [a1 EXCEPT !.buffer = @ + chunk.len]
    IN  IF a2.buffer >= a2.max_duration \/ a2.buffer >= a2.min_duration
        THEN AccFlush(a2)
        ELSE [acc |-> a2, out |-> <<>>]

\* a check_timeout without the 0.5 s floor
AccCheckTimeoutNoFloor(acc, elapsed) ==
    IF acc.buffer # 0 /\ elapsed
    THEN AccFlush(acc)
    ELSE [acc |-> acc, out |-> <<>>]

AccCheckTimeout(acc, elapsed) ==
    IF acc.buffer # 0 /\ elapsed /\ acc.buffer >= TimeoutFloorUnits
    THEN AccFlush(acc)
    ELSE [acc |-> acc, out |-> <<>>]

(* The same accumulator with the samples of its buffer: a buffer is a      *)
(* sequence of blocks of 800 samples, each block named by its position in  *)
(* the audio handed to add.                                                *)

MaxSamples == 40        \* blocks handed to one accumulator

\* a flush that returns the buffer and keeps it
SamplesFlushCopies(acc) ==
    IF acc.buffer = <<>>
    THEN [acc |-> acc, out |-> <<>>]
    ELSE [acc |-> [acc EXCEPT !.next_chunk_id = @ + 1],
          out |-> <<[data |-> acc.buffer, chunk_id |-> acc.next_chunk_id]>>]

\* flush: std::mem::take of the buffer, chunk_id from the counter (100-119)
SamplesFlush(acc) ==
    IF acc.buffer = <<>>
    THEN [acc |-> acc, out |-> <<>>]
    ELSE [acc |-> [acc EXCEPT !.buffer = <<>>, !.next_chunk_id = @ + 1],
          out |-> <<[data |-> acc.buffer, chunk_id |-> acc.next_chunk_id]>>]

\* add: extend_from_slice, then the flush at the minimum or maximum
\* duration (66-84)
SamplesAdd(acc, data) ==
    LET a == [acc EXCEPT !.buffer = @ \o data]
    IN  IF \/ Len(a.buffer) >= a.max_duration
           \/ Len(a.buffer) >= a.min_duration
        THEN SamplesFlush(a)
        ELSE [acc |-> a, out |-> <<>>]

\* check_timeout: the flush of a buffer of at least 0.5 s once the flush
\* timeout has elapsed (88-97)
SamplesCheckTimeout(acc, elapsed) ==
    IF acc.buffer # <<>> /\ elapsed /\ Len(acc.buffer) >= TimeoutFloorUnits
    THEN SamplesFlush(acc)
    ELSE [acc |-> acc, out |-> <<>>]

\* ChunkAccumulator::new with the durations of the Medium tier (51-63)
InitAccumulator ==
    /\ accumulator = [buffer |-> <<>>, next_chunk_id |-> 0,
                      min_duration |-> MinDurationUnits,
                      max_duration |-> MaxDurationUnits]
    /\ added = <<>>
    /\ returned = <<>>
    /\ last_out = <<>>

\* the effect of one call that answered r
Called(r) ==
    /\ accumulator' = r.acc
    /\ returned' = returned \o r.out
    /\ last_out' = r.out
    /\ UNCHANGED <<pipeVars, emitVars, streamVars, lifeVars>>

\* a call of add with a chunk of len fresh blocks
CallAdd(len) ==
    /\ Len(added) + len <= MaxSamples
    /\ LET data == [k \in 1..len |-> Len(added) + k]
       IN  /\ added' = added \o data
           /\ Called(SamplesAdd(accumulator, data))

CallCheckTimeout(elapsed) ==
    /\ UNCHANGED added
    /\ Called(SamplesCheckTimeout(accumulator, elapsed))

CallFlush ==
    /\ UNCHANGED added
    /\ Called(SamplesFlush(accumulator))

----------------------------------------------------------------------------
(* start_transcription_task: engine initialisation (worker.rs 148-168) and *)
(* worker spawn (187-222).                                                 *)

TaskInitOk ==
    /\ taskPc = "init"
    /\ taskPc' = "dispatch"
    /\ workerPc' = "recv"
    /\ UNCHANGED <<captureOpen, captured, mic_accumulator, sys_accumulator,
                   dispPc, dispOut, dispBreak, work, senderOpen, chunks_queued,
                   chunks_completed, chunks_dropped, input_finished,
                   workerChunk, workerSeq, verification_attempts, chunks_lost_in_processing, taskEvents, emitVars, streamVars, lifeVars, accVars>>

TaskInitFail ==
    /\ taskPc = "init"
    /\ taskPc' = "done"
    /\ taskEvents' = Bump(taskEvents, "transcription-error")
    /\ UNCHANGED <<captureOpen, captured, mic_accumulator, sys_accumulator,
                   dispPc, dispOut, dispBreak, work, senderOpen, chunks_queued,
                   chunks_completed, chunks_dropped, input_finished, workerPc,
                   workerChunk, workerSeq, verification_attempts, chunks_lost_in_processing, emitVars, streamVars, lifeVars, accVars>>

(* The capture side: the recording manager stops its streams and drops the *)
(* sender of the unbounded capture channel.                                *)
CaptureClose ==
    /\ captureOpen
    /\ captureOpen' = FALSE
    /\ UNCHANGED <<taskPc, captured, mic_accumulator, sys_accumulator, dispPc,
                   dispOut, dispBreak, work, senderOpen, chunks_queued,
                   chunks_completed, chunks_dropped, input_finished, workerPc,
                   workerChunk, workerSeq, verification_attempts, chunks_lost_in_processing, taskEvents, emitVars, streamVars, lifeVars, accVars>>

----------------------------------------------------------------------------
(* Dispatcher loop (worker.rs 517-561).                                    *)

DispFrame == <<taskPc, captureOpen, work, senderOpen, chunks_queued,
               chunks_completed, chunks_dropped, input_finished, workerPc,
               workerChunk, workerSeq, verification_attempts, chunks_lost_in_processing, taskEvents, emitVars, streamVars, lifeVars, accVars>>

AfterIteration(out, brk) ==
    IF out # <<>> THEN "queue" ELSE IF brk THEN "break" ELSE "recv"

\* Ok(Some(chunk)): route by device type (523-539)
DispatcherRecv(d, len) ==
    /\ taskPc = "dispatch" /\ dispPc = "recv"
    /\ captureOpen
    /\ captured' = captured + 1
    /\ LET chunk == [device |-> d, len |-> len, chunk_id |-> captured]
           rm == AccAdd(mic_accumulator, chunk)
           rs == AccAdd(sys_accumulator, chunk)
           out == CASE d = "Microphone" -> rm.out
                    [] d = "System" -> rs.out
                    [] OTHER -> <<chunk>>
       IN  /\ mic_accumulator' = IF d = "Microphone" THEN rm.acc ELSE mic_accumulator
           /\ sys_accumulator' = IF d = "System" THEN rs.acc ELSE sys_accumulator
           /\ dispOut' = out
           /\ dispBreak' = FALSE
           /\ dispPc' = AfterIteration(out, FALSE)
    /\ UNCHANGED DispFrame

\* a closed channel that flushes the microphone accumulator only
DispatcherClosedKeepsSystem ==
    /\ taskPc = "dispatch" /\ dispPc = "recv"
    /\ ~captureOpen
    /\ LET rm == AccFlush(mic_accumulator)
       IN  /\ mic_accumulator' = rm.acc
           /\ dispOut' = rm.out
           /\ dispBreak' = TRUE
           /\ dispPc' = AfterIteration(rm.out, TRUE)
    /\ UNCHANGED <<captured, sys_accumulator>>
    /\ UNCHANGED DispFrame

\* Ok(None): channel closed, flush both accumulators and break (540-550)
DispatcherClosed ==
    /\ taskPc = "dispatch" /\ dispPc = "recv"
    /\ ~captureOpen
    /\ LET rm == AccFlush(mic_accumulator)
           rs == AccFlush(sys_accumulator)
       IN  /\ mic_accumulator' = rm.acc
           /\ sys_accumulator' = rs.acc
           /\ dispOut' = rm.out \o rs.out
           /\ dispBreak' = TRUE
           /\ dispPc' = AfterIteration(rm.out \o rs.out, TRUE)
    /\ UNCHANGED <<captured>>
    /\ UNCHANGED DispFrame

\* Err(_): 200 ms without a chunk, check both flush timeouts (551-559)
DispatcherTimeout(micElapsed, sysElapsed) ==
    /\ taskPc = "dispatch" /\ dispPc = "recv"
    /\ captureOpen
    /\ LET rm == AccCheckTimeout(mic_accumulator, micElapsed)
           rs == AccCheckTimeout(sys_accumulator, sysElapsed)
       IN  /\ rm.out \o rs.out # <<>>
           /\ mic_accumulator' = rm.acc
           /\ sys_accumulator' = rs.acc
           /\ dispOut' = rm.out \o rs.out
           /\ dispBreak' = FALSE
           /\ dispPc' = "queue"
    /\ UNCHANGED <<captured>>
    /\ UNCHANGED DispFrame

(* dispatch_accumulated (worker.rs 487-515) *)

DispNext == IF Len(dispOut) > 1 THEN "queue" ELSE IF dispBreak THEN "break" ELSE "recv"

\* chunks_queued.fetch_add(1) before the send is awaited (494)
DispatchQueue ==
    /\ taskPc = "dispatch" /\ dispPc = "queue"
    /\ chunks_queued' = chunks_queued + 1
    /\ dispPc' = "send"
    /\ UNCHANGED <<taskPc, captureOpen, captured, mic_accumulator,
                   sys_accumulator, dispOut, dispBreak, work, senderOpen,
                   chunks_completed, chunks_dropped, input_finished, workerPc,
                   workerChunk, workerSeq, verification_attempts, chunks_lost_in_processing, taskEvents, emitVars, streamVars, lifeVars, accVars>>

\* Ok(Ok(())): a slot was free within 5 s (504)
DispatchSend ==
    /\ taskPc = "dispatch" /\ dispPc = "send"
    /\ Len(work) < WorkChannelCap
    /\ work' = Append(work, Head(dispOut))
    /\ dispOut' = Tail(dispOut)
    /\ dispPc' = DispNext
    /\ UNCHANGED <<taskPc, captureOpen, captured, mic_accumulator,
                   sys_accumulator, dispBreak, senderOpen, chunks_queued,
                   chunks_completed, chunks_dropped, input_finished, workerPc,
                   workerChunk, workerSeq, verification_attempts, chunks_lost_in_processing, taskEvents, emitVars, streamVars, lifeVars, accVars>>

\* a send timeout that also discards the chunk behind the one it was sending
DispatchDropsRest ==
    /\ taskPc = "dispatch" /\ dispPc = "send"
    /\ Len(work) = WorkChannelCap
    /\ chunks_dropped' = chunks_dropped + 1
    /\ dispOut' = <<>>
    /\ dispPc' = IF dispBreak THEN "break" ELSE "recv"
    /\ UNCHANGED <<taskPc, captureOpen, captured, mic_accumulator,
                   sys_accumulator, dispBreak, work, senderOpen, chunks_queued,
                   chunks_completed, input_finished, workerPc, workerChunk, workerSeq,
                   verification_attempts, chunks_lost_in_processing, taskEvents, emitVars, streamVars, lifeVars, accVars>>

\* a send timeout that counts the dropped chunk twice
DispatchDropCountsTwice ==
    /\ taskPc = "dispatch" /\ dispPc = "send"
    /\ Len(work) = WorkChannelCap
    /\ chunks_dropped' = chunks_dropped + 2
    /\ dispOut' = Tail(dispOut)
    /\ dispPc' = DispNext
    /\ UNCHANGED <<taskPc, captureOpen, captured, mic_accumulator,
                   sys_accumulator, dispBreak, work, senderOpen, chunks_queued,
                   chunks_completed, input_finished, workerPc, workerChunk,
                   workerSeq, verification_attempts,
                   chunks_lost_in_processing, taskEvents, emitVars, streamVars,
                   lifeVars, accVars>>

\* Err(_): the channel stayed full for 5 s, the chunk is dropped (509-513)
DispatchDrop ==
    /\ taskPc = "dispatch" /\ dispPc = "send"
    /\ Len(work) = WorkChannelCap
    /\ chunks_dropped' = chunks_dropped + 1
    /\ dispOut' = Tail(dispOut)
    /\ dispPc' = DispNext
    /\ UNCHANGED <<taskPc, captureOpen, captured, mic_accumulator,
                   sys_accumulator, dispBreak, work, senderOpen, chunks_queued,
                   chunks_completed, input_finished, workerPc, workerChunk, workerSeq,
                   verification_attempts, chunks_lost_in_processing, taskEvents, emitVars, streamVars, lifeVars, accVars>>

\* after the loop: input_finished, drop(work_sender), queue-complete (563-575)
DispatcherFinish ==
    /\ taskPc = "dispatch" /\ dispPc = "break"
    /\ input_finished' = TRUE
    /\ senderOpen' = FALSE
    /\ taskEvents' = Bump(taskEvents, "transcription-queue-complete")
    /\ taskPc' = "join"
    /\ dispPc' = "done"
    /\ UNCHANGED <<captureOpen, captured, mic_accumulator, sys_accumulator,
                   dispOut, dispBreak, work, chunks_queued, chunks_completed,
                   chunks_dropped, workerPc, workerChunk, workerSeq,
                   verification_attempts, chunks_lost_in_processing, emitVars, streamVars, lifeVars, accVars>>

----------------------------------------------------------------------------
(* Worker loop (worker.rs 201-461), NUM_WORKERS = 1.                       *)

WorkerFrame == <<taskPc, captureOpen, captured, mic_accumulator,
                 sys_accumulator, dispPc, dispOut, dispBreak, senderOpen,
                 chunks_queued, chunks_dropped, input_finished,
                 verification_attempts, chunks_lost_in_processing, lifeVars, accVars>>

\* receiver.recv() returns Some(chunk) (226-233)
WorkerRecv ==
    /\ workerPc = "recv"
    /\ work # <<>>
    /\ workerChunk' = Head(work)
    /\ work' = Tail(work)
    /\ workerPc' = "busy"
    /\ UNCHANGED <<chunks_completed, workerSeq, taskEvents, emitVars, streamVars>>
    /\ UNCHANGED WorkerFrame

\* Option<f32> confidences, in hundredths; NoConfidence is None
NoConfidence == -1
Confidences == {NoConfidence, 0, 1, 50}

\* transcripts as an engine hands them back: "", whitespace only, or words
Texts == {"empty", "blank", "words"}

\* text.trim() (702, 741, 783; 300)
Trim(text) == IF text = "blank" THEN "empty" ELSE text

TranscribeOk(text, confidence) ==
    [kind |-> "ok", error |-> "none", surfaced |-> FALSE,
     text |-> text, confidence |-> confidence]

\* surfaced: transcribe_chunk_with_provider emitted transcription-error
TranscribeErr(error, surfaced) ==
    [kind |-> "err", error |-> error, surfaced |-> surfaced,
     text |-> "empty", confidence |-> NoConfidence]

\* what transcribe_chunk_with_provider returns for a chunk (660-827): an
\* empty chunk is AudioTooShort (676-685); a local engine answers with a
\* trimmed text without confidence, or fails as EngineFailed with a
\* transcription-error event (699-772); a trait provider answers with a
\* trimmed text and its confidence, or with any TranscriptionError, which is
\* passed on after a transcription-error event (773-825)
Results(e, chunk) ==
    IF chunk.len = 0
    THEN {TranscribeErr("AudioTooShort", FALSE)}
    ELSE IF e = "local"
    THEN {TranscribeOk(Trim(t), NoConfidence) : t \in Texts}
             \cup {TranscribeErr("EngineFailed", TRUE)}
    ELSE {TranscribeOk(Trim(t), c) : t \in Texts, c \in Confidences}
             \cup {TranscribeErr(err, TRUE) :
                       err \in {"AudioTooShort", "ModelNotLoaded",
                                "EngineFailed"}}

\* the provider-aware threshold, 0.01 or 0.0 (284-287)
ConfidenceThreshold(e) == IF e = "provider" THEN 1 ELSE 0

\* meets_threshold (298)
MeetsThreshold(e, confidence) ==
    confidence = NoConfidence \/ confidence >= ConfidenceThreshold(e)

\* the test of the emitting branch (300)
Accepted(e, res) ==
    /\ res.kind = "ok"
    /\ Trim(res.text) # "empty"
    /\ MeetsThreshold(e, res.confidence)

\* chunks_completed.fetch_add(1) (258, 385, 391, 405)
MarkCompleted(n) == n + 1

\* the chunk is of device d and reaches the transcribe of the engine: it
\* passed the empty-chunk check (676-685), whatever its device_type (265-276)
Transcribed(chunk, d) == chunk.device = d /\ chunk.len # 0

\* the events of a chunk that is not emitted: transcription-error from
\* transcribe_chunk_with_provider, transcription-warning for an error other
\* than AudioTooShort and ModelNotLoaded (381-399)
ProcessEvents(ev, loaded, res) ==
    LET e1 == IF loaded /\ res.surfaced
              THEN Bump(ev, "transcription-error") ELSE ev
    IN  IF loaded /\ res.kind = "err"
           /\ res.error \notin {"AudioTooShort", "ModelNotLoaded"}
        THEN Bump(e1, "transcription-warning")
        ELSE e1

\* every branch that handles the chunk without emitting an update:
\* model not loaded (254-260), AudioTooShort / ModelNotLoaded (382-393),
\* other failure (394-398), empty or filtered result (370-377); each ends
\* with the chunk marked completed and the worker back at recv()
WorkerProcess(loaded, res) ==
    /\ workerPc = "busy" /\ engine \in {"local", "provider"}
    /\ res \in Results(engine, workerChunk)
    /\ loaded => ~Accepted(engine, res)
    /\ chunks_completed' = MarkCompleted(chunks_completed)
    /\ taskEvents' = ProcessEvents(taskEvents, loaded, res)
    /\ mixed_transcribed' =
           (mixed_transcribed \/ (loaded /\ Transcribed(workerChunk, "Mixed")))
    /\ workerPc' = "recv"
    /\ workerChunk' = NoChunk
    /\ UNCHANGED <<work, workerSeq, SEQUENCE_COUNTER, updates, speechVars,
                   streamVars>>
    /\ UNCHANGED WorkerFrame

\* a counter that is read without being advanced
FetchAddStale(n) == n

\* the value SEQUENCE_COUNTER.fetch_add(1) leaves in the counter (323)
FetchAdd(n) == n + 1

\* accepted result: the speech-detected check (307-320), then
\* SEQUENCE_COUNTER.fetch_add(1) (323).  The single worker (171) is the only
\* task of a local engine that touches the flag, so its load and store are
\* one step.
WorkerAssign ==
    /\ workerPc = "busy" /\ engine \in {"local", "provider"}
    /\ \E res \in Results(engine, workerChunk) : Accepted(engine, res)
    /\ SPEECH_DETECTED_EMITTED' = TRUE
    /\ speech_detected' = IF SPEECH_DETECTED_EMITTED THEN speech_detected
                                                     ELSE speech_detected + 1
    /\ mixed_transcribed' =
           (mixed_transcribed \/ Transcribed(workerChunk, "Mixed"))
    /\ workerSeq' = SEQUENCE_COUNTER
    /\ SEQUENCE_COUNTER' = FetchAdd(SEQUENCE_COUNTER)
    /\ workerPc' = "emit"
    /\ UNCHANGED <<work, workerChunk, chunks_completed, taskEvents, updates,
                   streamVars>>
    /\ UNCHANGED WorkerFrame

\* emit transcript-update, then mark the chunk completed (352-405).  The
\* log line at 352-355 slices the text at byte min(len, 50), which is a char
\* boundary for boundary50 = TRUE.
WorkerEmit(boundary50) ==
    /\ workerPc = "emit"
    /\ IF boundary50
       THEN /\ updates' = Append(updates,
                                 [sequence_id |-> workerSeq, source |-> "worker",
                                  gen |-> 0, live |-> 0, is_partial |-> FALSE,
                                  info |-> workerChunk.chunk_id])
            /\ chunks_completed' = MarkCompleted(chunks_completed)
            /\ workerPc' = "recv"
       ELSE \* &update.text[..50] inside a multi-byte char: the worker panics
            /\ workerPc' = "panicked"
            /\ UNCHANGED <<updates, chunks_completed>>
    /\ workerChunk' = NoChunk
    /\ UNCHANGED <<work, workerSeq, taskEvents, SEQUENCE_COUNTER, speechVars,
                   mixed_transcribed, streamVars>>
    /\ UNCHANGED WorkerFrame

\* the exit condition of the worker (441)
WorkerMayExit(completed, queued) == completed >= queued

\* recv() returns None: the channel is closed and empty (434-456)
WorkerNone ==
    /\ workerPc = "recv"
    /\ work = <<>> /\ ~senderOpen
    /\ workerPc' = IF input_finished
                   THEN IF WorkerMayExit(chunks_completed, chunks_queued)
                        THEN "exited" ELSE "sleep"
                   ELSE "sleep"
    /\ UNCHANGED <<work, workerChunk, workerSeq, chunks_completed, taskEvents,
                   emitVars, streamVars>>
    /\ UNCHANGED WorkerFrame

\* the 50 ms / 10 ms sleep is over, poll again (450, 454)
WorkerWake ==
    /\ workerPc = "sleep"
    /\ workerPc' = "recv"
    /\ UNCHANGED <<work, workerChunk, workerSeq, chunks_completed, taskEvents,
                   emitVars, streamVars>>
    /\ UNCHANGED WorkerFrame

----------------------------------------------------------------------------
(* Join and final verification loop (worker.rs 577-654).                   *)

VerifyFrame == <<captureOpen, captured, mic_accumulator, sys_accumulator,
                 dispPc, dispOut, dispBreak, work, senderOpen, chunks_queued,
                 chunks_completed, chunks_dropped, input_finished, workerPc,
                 workerChunk, workerSeq, emitVars, streamVars, lifeVars, accVars>>

\* handle.await returns for a worker that left its loop or panicked (578-584)
TaskJoin ==
    /\ taskPc = "join"
    /\ workerPc \in {"exited", "panicked"}
    /\ taskPc' = "verify"
    /\ UNCHANGED <<verification_attempts, chunks_lost_in_processing, taskEvents>>
    /\ UNCHANGED VerifyFrame

\* the reconciliation test of the verification loop (595)
Reconciled(queued, completed, dropped) == queued = completed + dropped

\* a verification loop that finishes on reconciled counts without a summary
VerifySummarySilent ==
    /\ taskPc = "verify"
    /\ Reconciled(chunks_queued, chunks_completed, chunks_dropped)
    /\ taskPc' = "done"
    /\ UNCHANGED <<verification_attempts, chunks_lost_in_processing, taskEvents>>
    /\ UNCHANGED VerifyFrame

\* counts reconcile: emit transcription-summary and finish (595-623)
VerifySummary ==
    /\ taskPc = "verify"
    /\ Reconciled(chunks_queued, chunks_completed, chunks_dropped)
    /\ taskEvents' = Bump(taskEvents, "transcription-summary")
    /\ taskPc' = "done"
    /\ UNCHANGED <<verification_attempts, chunks_lost_in_processing>>
    /\ UNCHANGED VerifyFrame

\* mismatch, retries left: wait 100 ms and read again (624-630)
VerifyRetry ==
    /\ taskPc = "verify"
    /\ ~Reconciled(chunks_queued, chunks_completed, chunks_dropped)
    /\ verification_attempts < MAX_VERIFICATION_ATTEMPTS
    /\ verification_attempts' = verification_attempts + 1
    /\ UNCHANGED <<taskPc, taskEvents, chunks_lost_in_processing>>
    /\ UNCHANGED VerifyFrame

\* processing_loss = final_queued.saturating_sub(final_completed +
\* final_dropped) (632)
SaturatingSub(a, b) == IF a >= b THEN a - b ELSE 0

\* a verification loop that declares the loss at the first mismatch
VerifyLossWithoutRetry ==
    /\ taskPc = "verify"
    /\ ~Reconciled(chunks_queued, chunks_completed, chunks_dropped)
    /\ taskEvents' = Bump(taskEvents, "transcript-chunk-loss-detected")
    /\ chunks_lost_in_processing' =
           SaturatingSub(chunks_queued, chunks_completed + chunks_dropped)
    /\ taskPc' = "done"
    /\ UNCHANGED <<verification_attempts>>
    /\ UNCHANGED VerifyFrame

\* mismatch after the last retry: transcript-chunk-loss-detected (631-651)
VerifyLoss ==
    /\ taskPc = "verify"
    /\ ~Reconciled(chunks_queued, chunks_completed, chunks_dropped)
    /\ verification_attempts >= MAX_VERIFICATION_ATTEMPTS
    /\ taskEvents' = Bump(taskEvents, "transcript-chunk-loss-detected")
    /\ chunks_lost_in_processing' =
           SaturatingSub(chunks_queued, chunks_completed + chunks_dropped)
    /\ taskPc' = "done"
    /\ UNCHANGED <<verification_attempts>>
    /\ UNCHANGED VerifyFrame

----------------------------------------------------------------------------
(* Specification of one transcription task.                                *)

\* the two streaming instances and the generations of their connections
Conns == {"mic", "sys"}
Gens == 1..MaxConnects

\* a reader task that was never spawned
\* the timestamps (0.0, 0.0, 0.0) of an update without chunk info
NoInfo == -1

NoReader == [pc |-> "none", aborted |-> FALSE, kind |-> "none", seq |-> 0,
             info |-> NoInfo, my_generation |-> 0]

\* DeepgramRealtimeTranscriber::with_config (deepgram_provider.rs 152-167)
InitEngine ==
    /\ fed = 0
    /\ persistent_ws = [c \in Conns |-> 0]
    /\ is_connected = [c \in Conns |-> FALSE]
    /\ reader_handle = [c \in Conns |-> 0]
    /\ connection_generation = [c \in Conns |-> 0]
    /\ chunk_info_queue = [c \in Conns |-> <<>>]
    /\ in_flight = [c \in Conns |-> <<>>]
    /\ rd = [c \in Conns |-> [g \in Gens |-> NoReader]]
    /\ txPc = "idle"
    /\ txAttempt = 0
    /\ interim_text = [c \in Conns |-> FALSE]
    /\ closePc = [c \in Conns |-> [pc |-> "idle", handle |-> 0]]

Starters == {1, 2}      \* concurrent callers of start_recording
Stoppers == {1, 2}      \* concurrent callers of stop_recording
SerialStoppers == {1}   \* a caller that stops one recording after the other
Sessions == 1..MaxStartCalls

LifecycleEventNames == {"recording-started", "recording-shutdown-progress",
                        "recording-stopped", "transcription-error",
                        "recording-paused", "recording-resumed"}

\* the statics of recording_lifecycle.rs (23-30) and no call in progress
InitLifecycle ==
    /\ IS_RECORDING = FALSE
    /\ RECORDING_MANAGER = 0
    /\ TRANSCRIPTION_TASK = 0
    /\ TRANSCRIPT_LISTENER_ID = 0
    /\ listeners = {}
    /\ startPc = [i \in Starters |-> "idle"]
    /\ startRet = [i \in Starters |-> "none"]
    /\ startCalls = 0
    /\ startDevices = [i \in Starters |-> "none"]
    /\ stopPc = [j \in Stoppers |-> "idle"]
    /\ stopRet = [j \in Stoppers |-> "none"]
    /\ stopCalls = 0
    /\ stopMgr = [j \in Stoppers |-> 0]
    /\ stopTask = [j \in Stoppers |-> 0]
    /\ sessCapture = [s \in Sessions |-> "none"]
    /\ sessTask = [s \in Sessions |-> "none"]
    /\ emittedBy = [s \in Sessions |-> {}]
    /\ history = [s \in Sessions |-> <<>>]
    /\ finalized = {}
    /\ lifecycleEvents = [n \in LifecycleEventNames |-> 0]
    /\ shutdownLog = <<>>
    /\ progress_task = [s \in Sessions |-> "none"]
    /\ drainExpired = {}
    /\ transcript_provider = "deepgram"
    /\ validatedProvider = [i \in Starters |-> "none"]
    /\ sessProvider = [s \in Sessions |->
                           [validated |-> "none", engine |-> "none",
                            unloaded |-> "none"]]
    /\ pausePc = "idle"
    /\ pauseRet = "none"
    /\ pauseCalls = 0
    /\ sessPaused = {}
    /\ PROXY_CONFIG_CACHE = "none"
    /\ sessStreams = [s \in Sessions |-> {}]

\* start_transcription_task at its spawn, before the accumulators are built
InitTask ==
    /\ taskPc = "init"
    /\ captureOpen = TRUE
    /\ captured = 0
    /\ dispPc = "recv"
    /\ dispOut = <<>>
    /\ dispBreak = FALSE
    /\ work = <<>>
    /\ senderOpen = TRUE
    /\ chunks_queued = 0
    /\ chunks_completed = 0
    /\ chunks_dropped = 0
    /\ input_finished = FALSE
    /\ workerPc = "none"
    /\ workerChunk = NoChunk
    /\ workerSeq = 0
    /\ verification_attempts = 0
    /\ chunks_lost_in_processing = 0
    /\ taskEvents = [n \in TaskEventNames |-> 0]
    /\ SEQUENCE_COUNTER = 0
    /\ updates = <<>>
    /\ SPEECH_DETECTED_EMITTED = FALSE
    /\ speech_detected = 0
    /\ mixed_transcribed = FALSE
    /\ engine \in {"local", "provider"}
    /\ InitEngine
    /\ InitLifecycle
    /\ InitAccumulator

InitPipe ==
    /\ InitTask
    /\ mic_accumulator = AccNew
    /\ sys_accumulator = AccNew

NextPipe ==
    \/ TaskInitOk
    \/ TaskInitFail
    \/ CaptureClose
    \/ \E d \in Devices, len \in ChunkLens :
           captured < MaxChunks /\ DispatcherRecv(d, len)
    \/ DispatcherClosed
    \/ \E m, s \in BOOLEAN : DispatcherTimeout(m, s)
    \/ DispatchQueue
    \/ DispatchSend
    \/ DispatchDrop
    \/ DispatcherFinish
    \/ WorkerRecv
    \/ \E loaded \in BOOLEAN, res \in Results(engine, workerChunk) :
           WorkerProcess(loaded, res)
    \/ WorkerAssign
    \/ \E b \in BOOLEAN : WorkerEmit(b)
    \/ WorkerNone
    \/ WorkerWake
    \/ TaskJoin
    \/ VerifySummary
    \/ VerifyRetry
    \/ VerifyLoss

SpecPipe == InitPipe /\ [][NextPipe]_vars

----------------------------------------------------------------------------
(* The end-to-end scenario: ten microphone chunks of 0.2 s into accumulators *)
(* of min_duration 1.0 s and max_duration 5.0 s, then shutdown.  The chunks *)
(* arrive without a silence of flush_timeout between them.                  *)

ScenarioChunks == 10        \* chunks the capture side sends
ScenarioChunkUnits == 4     \* 0.2 s
ScenarioMinUnits == 20      \* min_duration 1.0 s
ScenarioMaxUnits == 100     \* max_duration 5.0 s

InitScenario ==
    /\ InitTask
    /\ mic_accumulator = AccWith(ScenarioMinUnits, ScenarioMaxUnits)
    /\ sys_accumulator = AccWith(ScenarioMinUnits, ScenarioMaxUnits)

\* the capture side sends its next chunk
ScenarioRecv ==
    /\ captured < ScenarioChunks
    /\ DispatcherRecv("Microphone", ScenarioChunkUnits)

\* shutdown once the ten chunks are sent
ScenarioClose ==
    /\ captured = ScenarioChunks
    /\ CaptureClose

\* the work channel has 2000 slots (176): two chunks never fill it, so the
\* send timeout of dispatch_accumulated does not fire in this scenario, and
\* with nothing dropped the worker never sleeps after recv() returned None
NextScenario ==
    \/ TaskInitOk
    \/ ScenarioRecv
    \/ ScenarioClose
    \/ DispatcherClosed
    \/ DispatchQueue
    \/ DispatchSend
    \/ DispatcherFinish
    \/ WorkerRecv
    \/ \E loaded \in BOOLEAN, res \in Results(engine, workerChunk) :
           WorkerProcess(loaded, res)
    \/ WorkerAssign
    \/ \E b \in BOOLEAN : WorkerEmit(b)
    \/ WorkerNone
    \/ TaskJoin
    \/ VerifySummary
    \/ VerifyRetry
    \/ VerifyLoss

SpecScenario == InitScenario /\ [][NextScenario]_vars

(* The tasks are tokio tasks on a multi-thread runtime: each one that can  *)
(* take a step eventually does.                                            *)
FairPipe ==
    /\ SpecPipe
    /\ WF_vars(DispatcherClosed \/ DispatchQueue \/ DispatchSend \/ DispatchDrop
               \/ DispatcherFinish)
    /\ WF_vars(WorkerRecv \/ WorkerAssign \/ WorkerNone \/ WorkerWake
               \/ (\E b \in BOOLEAN : WorkerEmit(b))
               \/ (\E loaded \in BOOLEAN, res \in Results(engine, workerChunk) :
                       WorkerProcess(loaded, res)))
    /\ WF_vars(TaskInitOk \/ TaskInitFail \/ TaskJoin \/ VerifySummary
               \/ VerifyRetry \/ VerifyLoss)

----------------------------------------------------------------------------
(* Streaming engine: two DeepgramRealtimeTranscriber instances, one per     *)
(* audio source (engine.rs 395-440), each with a persistent WebSocket and   *)
(* a reader task per connection (deepgram_provider.rs).                     *)

\* the instance a chunk is routed to (engine.rs 75-79, 94-103)
Conn(d) == IF d = "Microphone" THEN "mic" ELSE "sys"

\* old_handle.abort(): the flag is set, the task stops at its next await
Abort(readers, c, g) ==
    IF g = 0 THEN readers ELSE [readers EXCEPT ![c][g].aborted = TRUE]

\* the dispatcher hands the worker of a session its next chunk through the
\* work channel (worker.rs 487-505); the chunks reach the engine one by one,
\* so the next one is sent here when the worker waits for it
StreamFeed(d, len) ==
    /\ taskPc = "dispatch"
    /\ fed < MaxFed
    /\ work = <<>> /\ workerPc = "recv"
    /\ \A c \in Conns : closePc[c].pc = "idle"
    /\ fed' = fed + 1
    /\ chunks_queued' = chunks_queued + 1
    /\ work' = Append(work, [device |-> d, len |-> len, chunk_id |-> fed])
    /\ UNCHANGED <<taskPc, captureOpen, captured, mic_accumulator,
                   sys_accumulator, dispPc, dispOut, dispBreak, senderOpen,
                   chunks_completed, chunks_dropped, input_finished, workerPc,
                   workerChunk, workerSeq, verification_attempts, chunks_lost_in_processing, taskEvents,
                   emitVars, engine, interim_text,
                   closePc, persistent_ws, is_connected,
                   reader_handle, connection_generation, chunk_info_queue, in_flight, rd,
                   txPc, txAttempt, lifeVars, accVars>>

\* the worker gets the answer of the engine and marks the chunk completed
\* (worker.rs 370-405)
TxReturn(ret) ==
    /\ txPc' = "idle"
    /\ chunks_completed' = MarkCompleted(chunks_completed)
    /\ taskEvents' = IF ret = "failed"
                     THEN Bump(taskEvents, "transcription-warning")
                     ELSE taskEvents
    /\ workerPc' = "recv"
    /\ workerChunk' = NoChunk

\* queue_chunk_info ahead of the transcribe call (engine.rs 68-83,
\* deepgram_provider.rs 205-217): Mixed chunks queue nothing
QueueChunkInfo ==
    /\ workerPc = "busy" /\ engine = "streaming"
    /\ workerPc' = "queued"
    /\ chunk_info_queue' =
           IF workerChunk.device = "Mixed"
           THEN chunk_info_queue
           ELSE [chunk_info_queue EXCEPT ![Conn(workerChunk.device)] =
                     Append(@, workerChunk.chunk_id)]
    /\ UNCHANGED in_flight
    /\ UNCHANGED <<work, workerChunk, workerSeq, chunks_completed, taskEvents,
                   emitVars, engine, interim_text,
                   closePc, fed, persistent_ws, is_connected,
                   reader_handle, connection_generation, rd, txPc, txAttempt>>
    /\ UNCHANGED WorkerFrame

\* a transcribe that ensures the connection ahead of the length check
TranscribeBeginConnectsFirst ==
    /\ workerPc = "queued" /\ txPc = "idle"
    /\ LET c == Conn(workerChunk.device) IN
       IF workerChunk.device = "Mixed"
       THEN /\ TxReturn("failed")
            /\ UNCHANGED txAttempt
       ELSE /\ txPc' = IF persistent_ws[c] # 0 THEN "send" ELSE "connect"
            /\ txAttempt' = 1
            /\ workerPc' = "tx"
            /\ UNCHANGED <<chunks_completed, taskEvents, workerChunk>>
    /\ UNCHANGED <<work, workerSeq, emitVars, engine, interim_text,
                   closePc, fed, persistent_ws,
                   is_connected, reader_handle, connection_generation,
                   chunk_info_queue, in_flight, rd>>
    /\ UNCHANGED WorkerFrame

\* transcribe_for_device, up to the first await of the connection
\* (engine.rs 87-109, deepgram_provider.rs 638-653, 329-336)
TranscribeBegin ==
    /\ workerPc = "queued" /\ txPc = "idle"
    /\ LET c == Conn(workerChunk.device) IN
       IF workerChunk.device = "Mixed"
       THEN /\ TxReturn("failed")
            /\ UNCHANGED txAttempt
       ELSE IF workerChunk.len < MinimumSampleUnits
       THEN /\ TxReturn("too_short")
            /\ UNCHANGED txAttempt
       ELSE /\ txPc' = IF persistent_ws[c] # 0 THEN "send" ELSE "connect"
            /\ txAttempt' = 1
            /\ workerPc' = "tx"
            /\ UNCHANGED <<chunks_completed, taskEvents, workerChunk>>
    /\ UNCHANGED <<work, workerSeq, emitVars, engine, interim_text,
                   closePc, fed, persistent_ws,
                   is_connected, reader_handle, connection_generation,
                   chunk_info_queue, in_flight, rd>>
    /\ UNCHANGED WorkerFrame

\* a connect_websocket that spawns its reader with the generation it found
ConnectOkSameGeneration ==
    /\ txPc \in {"connect", "reconnect"}
    /\ LET c == Conn(workerChunk.device)
           g == connection_generation[c]
           h == Cardinality({k \in Gens : rd[c][k].pc # "none"}) + 1
       IN  /\ h \in Gens
           /\ persistent_ws' = [persistent_ws EXCEPT ![c] = h]
           /\ is_connected' = [is_connected EXCEPT ![c] = TRUE]
           /\ UNCHANGED connection_generation
           /\ rd' = [Abort(rd, c, reader_handle[c]) EXCEPT
                        ![c][h] = [pc |-> "wait", aborted |-> FALSE,
                                   kind |-> "none", seq |-> 0,
                                   info |-> NoInfo, my_generation |-> g]]
           /\ reader_handle' = [reader_handle EXCEPT ![c] = h]
    /\ txPc' = IF txPc = "connect" THEN "send" ELSE "resend"
    /\ UNCHANGED <<work, workerPc, workerChunk, workerSeq, chunks_completed,
                   taskEvents, emitVars, engine, interim_text,
                   closePc, fed, chunk_info_queue, in_flight,
                   txAttempt>>
    /\ UNCHANGED WorkerFrame

\* connect_websocket succeeds (368-461): store the socket, abort the old
\* reader, bump the generation, spawn the reader of the new generation
ConnectOk ==
    /\ txPc \in {"connect", "reconnect"}
    /\ LET c == Conn(workerChunk.device)
           g == connection_generation[c] + 1
       IN  /\ connection_generation["mic"] + connection_generation["sys"]
                  < MaxConnects
           /\ persistent_ws' = [persistent_ws EXCEPT ![c] = g]
           /\ is_connected' = [is_connected EXCEPT ![c] = TRUE]
           /\ connection_generation' = [connection_generation EXCEPT ![c] = g]
           /\ rd' = [Abort(rd, c, reader_handle[c]) EXCEPT
                        ![c][g] = [pc |-> "wait", aborted |-> FALSE,
                                   kind |-> "none", seq |-> 0,
                                   info |-> NoInfo, my_generation |-> g]]
           /\ reader_handle' = [reader_handle EXCEPT ![c] = g]
    /\ txPc' = IF txPc = "connect" THEN "send" ELSE "resend"
    /\ UNCHANGED <<work, workerPc, workerChunk, workerSeq, chunks_completed,
                   taskEvents, emitVars, engine, interim_text,
                   closePc, fed, chunk_info_queue, in_flight,
                   txAttempt>>
    /\ UNCHANGED WorkerFrame

\* an ensure_connected that gives up at the first failed attempt
ConnectFailGivesUp ==
    /\ txPc \in {"connect", "reconnect"}
    /\ TxReturn("failed")
    /\ UNCHANGED txAttempt
    /\ UNCHANGED <<work, workerSeq, emitVars, engine, interim_text,
                   closePc, fed, persistent_ws,
                   is_connected, reader_handle, connection_generation,
                   chunk_info_queue, in_flight, rd>>
    /\ UNCHANGED WorkerFrame

\* connect_websocket fails: retry after 1 s, give up after the third attempt
\* (ensure_connected, 338-364)
ConnectFail ==
    /\ txPc \in {"connect", "reconnect"}
    /\ IF txAttempt < MAX_RECONNECT_ATTEMPTS
       THEN /\ txAttempt' = txAttempt + 1
            /\ UNCHANGED <<txPc, chunks_completed, taskEvents, workerPc,
                           workerChunk>>
       ELSE /\ TxReturn("failed")
            /\ UNCHANGED txAttempt
    /\ UNCHANGED <<work, workerSeq, emitVars, engine, interim_text,
                   closePc, fed, persistent_ws,
                   is_connected, reader_handle, connection_generation,
                   chunk_info_queue, in_flight, rd>>
    /\ UNCHANGED WorkerFrame

\* ws.send succeeds: transcribe returns an empty result (657-662, 705-711)
SendOk ==
    /\ txPc \in {"send", "resend"}
    /\ in_flight' = [in_flight EXCEPT ![Conn(workerChunk.device)] =
                         Append(@, workerChunk.chunk_id)]
    /\ TxReturn("ok")
    /\ UNCHANGED <<work, workerSeq, emitVars, engine, interim_text,
                   closePc, fed, persistent_ws,
                   is_connected, reader_handle, connection_generation,
                   chunk_info_queue, rd, txAttempt>>
    /\ UNCHANGED WorkerFrame

\* a transcribe that reconnects after every failed send
SendFailReconnectsAgain ==
    /\ txPc \in {"send", "resend"}
    /\ LET c == Conn(workerChunk.device) IN
       /\ rd' = Abort(rd, c, reader_handle[c])
       /\ reader_handle' = [reader_handle EXCEPT ![c] = 0]
       /\ persistent_ws' = [persistent_ws EXCEPT ![c] = 0]
       /\ is_connected' = [is_connected EXCEPT ![c] = FALSE]
       /\ chunk_info_queue' = [chunk_info_queue EXCEPT ![c] = <<>>]
       /\ in_flight' = [in_flight EXCEPT ![c] = <<>>]
       /\ interim_text' = [interim_text EXCEPT ![c] = FALSE]
       /\ txPc' = "reconnect"
       /\ txAttempt' = 1
       /\ UNCHANGED <<chunks_completed, taskEvents, workerPc, workerChunk>>
    /\ UNCHANGED <<work, workerSeq, emitVars, engine, closePc, fed,
                   connection_generation>>
    /\ UNCHANGED WorkerFrame

\* ws.send fails (664-703): the first time abort the reader, clear the
\* connection state and reconnect; after a reconnect give up.  What was
\* sent on the dropped socket gets no result any more.
SendFail ==
    /\ txPc \in {"send", "resend"}
    /\ LET c == Conn(workerChunk.device) IN
       IF txPc = "send"
       THEN /\ rd' = Abort(rd, c, reader_handle[c])
            /\ reader_handle' = [reader_handle EXCEPT ![c] = 0]
            /\ persistent_ws' = [persistent_ws EXCEPT ![c] = 0]
            /\ is_connected' = [is_connected EXCEPT ![c] = FALSE]
            /\ chunk_info_queue' = [chunk_info_queue EXCEPT ![c] = <<>>]
            /\ in_flight' = [in_flight EXCEPT ![c] = <<>>]
            /\ interim_text' = [interim_text EXCEPT ![c] = FALSE]
            /\ txPc' = "reconnect"
            /\ txAttempt' = 1
            /\ UNCHANGED <<chunks_completed, taskEvents, workerPc,
                           workerChunk>>
       ELSE /\ TxReturn("failed")
            /\ UNCHANGED <<rd, reader_handle, persistent_ws, is_connected,
                           chunk_info_queue, in_flight, interim_text, txAttempt>>
    /\ UNCHANGED <<work, workerSeq, emitVars, engine, closePc, fed,
                   connection_generation>>
    /\ UNCHANGED WorkerFrame

(* close_persistent_stream (deepgram_provider.rs 221-260), called for the  *)
(* microphone instance and then for the system instance by close_stream    *)
(* (engine.rs 113-118) once the worker has drained the channel             *)

CloseFrame == <<pipeVars, emitVars, lifeVars, accVars, engine, fed,
                connection_generation, rd, txPc, txAttempt>>

\* CloseStream is sent and the socket closed, whatever their results; the
\* write half is dropped and the reader handle taken (224-241)
CloseBegin(c) ==
    /\ engine = "streaming"
    /\ workerPc = "recv" /\ work = <<>> /\ txPc = "idle"
    /\ closePc[c].pc = "idle"
    /\ c = "sys" => closePc["mic"].pc = "closed"
    /\ persistent_ws' = [persistent_ws EXCEPT ![c] = 0]
    /\ closePc' = [closePc EXCEPT ![c] = [pc |-> "wait",
                                          handle |-> reader_handle[c]]]
    /\ reader_handle' = [reader_handle EXCEPT ![c] = 0]
    /\ UNCHANGED <<is_connected, chunk_info_queue, in_flight, interim_text>>
    /\ UNCHANGED CloseFrame

\* a wait for the reader that has no timeout
CloseWaitNoTimeout(c, timedOut) ==
    /\ closePc[c].pc = "wait"
    /\ ~timedOut
    /\ closePc[c].handle # 0 => rd[c][closePc[c].handle].pc = "done"
    /\ is_connected' = [is_connected EXCEPT ![c] = FALSE]
    /\ chunk_info_queue' = [chunk_info_queue EXCEPT ![c] = <<>>]
    /\ in_flight' = [in_flight EXCEPT ![c] = <<>>]
    /\ interim_text' = [interim_text EXCEPT ![c] = FALSE]
    /\ closePc' = [closePc EXCEPT ![c] = [pc |-> "closed", handle |-> 0]]
    /\ UNCHANGED <<persistent_ws, reader_handle>>
    /\ UNCHANGED CloseFrame

\* the wait for the reader ends: the reader finished or panicked, or the
\* 10 s are over and the handle is dropped with the reader still running
\* (243-250); then the flag, the queue and the interim text are cleared
\* (253-257)
CloseWait(c, timedOut) ==
    /\ closePc[c].pc = "wait"
    /\ LET h == closePc[c].handle IN
       IF h = 0 THEN ~timedOut
       ELSE IF timedOut THEN rd[c][h].pc # "done"
                        ELSE rd[c][h].pc = "done"
    /\ is_connected' = [is_connected EXCEPT ![c] = FALSE]
    /\ chunk_info_queue' = [chunk_info_queue EXCEPT ![c] = <<>>]
    /\ in_flight' = [in_flight EXCEPT ![c] = <<>>]
    /\ interim_text' = [interim_text EXCEPT ![c] = FALSE]
    /\ closePc' = [closePc EXCEPT ![c] = [pc |-> "closed", handle |-> 0]]
    /\ UNCHANGED <<persistent_ws, reader_handle>>
    /\ UNCHANGED CloseFrame

(* reader_task (deepgram_provider.rs 464-633) *)

\* the server answers the audio of a connection in the order it was sent:
\* a final result closes the oldest chunk in flight
Finalised(sent) == IF sent = <<>> THEN sent ELSE Tail(sent)

ReaderFrame == <<pipeVars, engine, closePc, fed, persistent_ws, reader_handle,
                 connection_generation, txPc, txAttempt, lifeVars, accVars>>

\* read.next() yields: a result message passes the generation check (481)
\* and is parsed; a stale generation, a Close frame, an error or the end of
\* the stream leave the loop and clear is_connected (631).  An aborted
\* reader that is still running gets here when the message is ready.
\* a result with an empty transcript is skipped (512-514)
ReaderNext(c, g, kind) ==
    /\ rd[c][g].pc = "wait"
    /\ IF kind = "close" \/ connection_generation[c] # rd[c][g].my_generation
       THEN /\ rd' = [rd EXCEPT ![c][g] = [NoReader EXCEPT !.pc = "done"]]
            /\ is_connected' = [is_connected EXCEPT ![c] = FALSE]
            /\ UNCHANGED in_flight
       ELSE IF kind = "final_empty"
       THEN /\ in_flight' = [in_flight EXCEPT ![c] = Finalised(@)]
            /\ UNCHANGED <<rd, is_connected>>
       ELSE /\ SEQUENCE_COUNTER < MaxSeq
            /\ rd' = [rd EXCEPT ![c][g].pc = "checked", ![c][g].kind = kind]
            /\ UNCHANGED <<is_connected, in_flight>>
    /\ UNCHANGED <<emitVars, chunk_info_queue, interim_text>>
    /\ UNCHANGED ReaderFrame

\* the timestamps an update takes from the queue (535-545, 588-595)
FrontInfo(queue) == IF queue = <<>> THEN NoInfo ELSE Head(queue)

\* a reader that takes the front entry off the queue for every result
ReaderAssignPops(c, g, boundary80) ==
    /\ rd[c][g].pc = "checked"
    /\ chunk_info_queue' =
           IF chunk_info_queue[c] # <<>>
           THEN [chunk_info_queue EXCEPT ![c] = Tail(@)]
           ELSE chunk_info_queue
    /\ in_flight' = IF rd[c][g].kind = "final"
                    THEN [in_flight EXCEPT ![c] = Finalised(@)]
                    ELSE in_flight
    /\ interim_text' = [interim_text EXCEPT ![c] = (rd[c][g].kind = "interim")]
    /\ SEQUENCE_COUNTER' = FetchAdd(SEQUENCE_COUNTER)
    /\ rd' = IF rd[c][g].kind = "final" /\ ~boundary80
             THEN [rd EXCEPT ![c][g] = [NoReader EXCEPT !.pc = "done"]]
             ELSE [rd EXCEPT ![c][g].pc = "assigned",
                             ![c][g].seq = SEQUENCE_COUNTER,
                             ![c][g].info = FrontInfo(chunk_info_queue[c])]
    /\ UNCHANGED <<updates, speechVars, mixed_transcribed, is_connected>>
    /\ UNCHANGED ReaderFrame

\* final result: clear interim_text (527) and pop the chunk info (530-533);
\* interim result: store the text (580) and peek at the chunk info
\* (583-586); then SEQUENCE_COUNTER.fetch_add(1) (547, 597).  The console
\* line of a final result slices the transcript at byte 80 (566), a char
\* boundary for boundary80 = TRUE.
ReaderAssign(c, g, boundary80) ==
    /\ rd[c][g].pc = "checked"
    /\ chunk_info_queue' =
           IF rd[c][g].kind = "final" /\ chunk_info_queue[c] # <<>>
           THEN [chunk_info_queue EXCEPT ![c] = Tail(@)]
           ELSE chunk_info_queue
    /\ in_flight' = IF rd[c][g].kind = "final"
                    THEN [in_flight EXCEPT ![c] = Finalised(@)]
                    ELSE in_flight
    /\ interim_text' = [interim_text EXCEPT ![c] = (rd[c][g].kind = "interim")]
    /\ SEQUENCE_COUNTER' = FetchAdd(SEQUENCE_COUNTER)
    /\ rd' = IF rd[c][g].kind = "final" /\ ~boundary80
             THEN [rd EXCEPT ![c][g] = [NoReader EXCEPT !.pc = "done"]]
             ELSE [rd EXCEPT ![c][g].pc = "assigned",
                             ![c][g].seq = SEQUENCE_COUNTER,
                             ![c][g].info = FrontInfo(chunk_info_queue[c])]
    /\ UNCHANGED <<updates, speechVars, mixed_transcribed, is_connected>>
    /\ UNCHANGED ReaderFrame

\* the update a reader hands to its emitter
ReaderUpdate(c, g) ==
    [sequence_id |-> rd[c][g].seq, source |-> c,
     gen |-> rd[c][g].my_generation,
     live |-> connection_generation[c],
     is_partial |-> (rd[c][g].kind = "interim"), info |-> rd[c][g].info]

\* the reader is back at read.next()
ReaderWaits(c, g) ==
    [rd EXCEPT ![c][g] = [@ EXCEPT !.pc = "wait", !.kind = "none", !.seq = 0,
                                   !.info = NoInfo]]

\* the stored emitter is called (572-577, 613-616) and loads the speech
\* flag (engine.rs 402, 423): with the flag set it emits transcript-update
\* (408, 429), otherwise it goes on to store the flag.  The readers of one
\* instance call the emitter under the lock of event_emitter; the two
\* instances have a lock each.
ReaderEmit(c, g) ==
    /\ rd[c][g].pc = "assigned"
    /\ \A h \in Gens : rd[c][h].pc # "speech"
    /\ IF SPEECH_DETECTED_EMITTED
       THEN /\ updates' = Append(updates, ReaderUpdate(c, g))
            /\ rd' = ReaderWaits(c, g)
       ELSE /\ rd' = [rd EXCEPT ![c][g].pc = "speech"]
            /\ UNCHANGED updates
    /\ UNCHANGED <<SEQUENCE_COUNTER, speechVars, mixed_transcribed,
                   is_connected, chunk_info_queue, in_flight, interim_text>>
    /\ UNCHANGED ReaderFrame

\* the emitter found the flag clear: it stores true, emits speech-detected
\* and then transcript-update (engine.rs 403-408, 424-429)
ReaderSpeech(c, g) ==
    /\ rd[c][g].pc = "speech"
    /\ SPEECH_DETECTED_EMITTED' = TRUE
    /\ speech_detected' = speech_detected + 1
    /\ updates' = Append(updates, ReaderUpdate(c, g))
    /\ rd' = ReaderWaits(c, g)
    /\ UNCHANGED <<SEQUENCE_COUNTER, mixed_transcribed, is_connected,
                   chunk_info_queue, in_flight, interim_text>>
    /\ UNCHANGED ReaderFrame

\* an aborted reader is dropped when it reaches an await; the emitter runs
\* to its end without one
ReaderCancelled(c, g) ==
    /\ rd[c][g].pc \in {"wait", "checked", "assigned"} /\ rd[c][g].aborted
    /\ rd' = [rd EXCEPT ![c][g] = [NoReader EXCEPT !.pc = "done"]]
    /\ UNCHANGED <<emitVars, is_connected, chunk_info_queue, in_flight, interim_text>>
    /\ UNCHANGED ReaderFrame

----------------------------------------------------------------------------
(* Specification of a session whose worker is fed chunks, with a local or  *)
(* a streaming engine.                                                     *)

InitStream ==
    /\ taskPc = "dispatch"
    /\ captureOpen = TRUE
    /\ captured = 0
    /\ mic_accumulator = AccNew
    /\ sys_accumulator = AccNew
    /\ dispPc = "recv"
    /\ dispOut = <<>>
    /\ dispBreak = FALSE
    /\ work = <<>>
    /\ senderOpen = TRUE
    /\ chunks_queued = 0
    /\ chunks_completed = 0
    /\ chunks_dropped = 0
    /\ input_finished = FALSE
    /\ workerPc = "recv"
    /\ workerChunk = NoChunk
    /\ workerSeq = 0
    /\ verification_attempts = 0
    /\ chunks_lost_in_processing = 0
    /\ taskEvents = [n \in TaskEventNames |-> 0]
    /\ SEQUENCE_COUNTER = 0
    /\ updates = <<>>
    /\ SPEECH_DETECTED_EMITTED = FALSE
    /\ speech_detected = 0
    /\ mixed_transcribed = FALSE
    /\ engine \in {"local", "provider", "streaming"}
    /\ InitEngine
    /\ InitLifecycle
    /\ InitAccumulator

NextStream ==
    \/ \E d \in Devices, len \in StreamLens : StreamFeed(d, len)
    \/ WorkerRecv
    \/ \E loaded \in BOOLEAN, res \in Results(engine, workerChunk) :
           WorkerProcess(loaded, res)
    \/ WorkerAssign
    \/ \E b \in BOOLEAN : WorkerEmit(b)
    \/ QueueChunkInfo
    \/ TranscribeBegin
    \/ ConnectOk
    \/ ConnectFail
    \/ SendOk
    \/ SendFail
    \/ \E c \in Conns : CloseBegin(c)
    \/ \E c \in Conns, timedOut \in BOOLEAN : CloseWait(c, timedOut)
    \/ \E c \in Conns, g \in Gens :
           \/ \E kind \in {"final", "final_empty", "interim", "close"} :
                  ReaderNext(c, g, kind)
           \/ \E b \in BOOLEAN : ReaderAssign(c, g, b)
           \/ ReaderEmit(c, g)
           \/ ReaderSpeech(c, g)
           \/ ReaderCancelled(c, g)

SpecStream == InitStream /\ [][NextStream]_vars

----------------------------------------------------------------------------
(* Recording lifecycle (recording_lifecycle.rs, recording_helpers.rs).     *)
(* The commands are async Tauri commands: calls run concurrently and       *)
(* interleave at their awaits.  A session is one RecordingManager with its *)
(* transcription task; the task is seen here through the updates it emits. *)

BumpBy(ev, name, n) == [ev EXCEPT ![name] = @ + n]

\* sessions whose manager started recording
Created == Cardinality({s \in Sessions : sessTask[s] # "none"})

pauseVars == <<pausePc, pauseRet, pauseCalls, sessPaused>>
providerVars == <<transcript_provider, validatedProvider, sessProvider>>
ConfigFrame == <<pipeVars, updates, mixed_transcribed, streamVars,
                 PROXY_CONFIG_CACHE, sessStreams, pauseVars, drainExpired,
                 accVars>>
TaskFrame == <<ConfigFrame, providerVars>>
stopLogVars == <<shutdownLog, progress_task>>
StopFrame == <<TaskFrame, speechVars, startDevices>>
OtherFrame == <<StopFrame, stopLogVars>>

\* start_recording_with_meeting_name: the IS_RECORDING check
\* (recording_lifecycle.rs 61-66)
StartCheck(i) ==
    /\ startPc[i] = "idle"
    /\ startCalls < MaxStartCalls
    /\ startCalls' = startCalls + 1
    /\ IF IS_RECORDING
       THEN /\ startRet' = [startRet EXCEPT ![i] = "err_active"]
            /\ UNCHANGED startPc
       ELSE /\ startRet' = [startRet EXCEPT ![i] = "pending"]
            /\ startPc' = [startPc EXCEPT ![i] = "prepare"]
    /\ UNCHANGED <<IS_RECORDING, RECORDING_MANAGER, TRANSCRIPTION_TASK,
                   TRANSCRIPT_LISTENER_ID, listeners, stopPc, stopRet, stopMgr,
                   stopTask, stopCalls, sessCapture, sessTask, emittedBy,
                   history, finalized, lifecycleEvents, SEQUENCE_COUNTER>>
    /\ UNCHANGED OtherFrame

(* The stored transcript configuration (database/repositories/setting.rs)  *)
(* and the three places that read its provider.                            *)

Providers == {"deepgram", "parakeet", "localWhisper", "moonshine"}

\* validate_transcription_model_ready: the stored provider, parakeet when
\* there is no configuration (engine.rs 128-160)
ValidatedProvider(cfg) == IF cfg = "none" THEN "parakeet" ELSE cfg

\* what the validation of provider p can answer: Deepgram is ready exactly
\* when a proxy configuration is cached, a local engine when its model
\* could be found and loaded (engine.rs 163-247)
ValidationOutcomes(p) ==
    IF p = "deepgram" THEN {PROXY_CONFIG_CACHE # "none"} ELSE BOOLEAN

\* get_or_init_transcription_engine: the engine of the stored provider,
\* parakeet without a configuration, Whisper for any other name
\* (engine.rs 265-458)
EngineProvider(cfg) ==
    IF cfg = "none" THEN "parakeet"
    ELSE IF cfg \in {"parakeet", "moonshine", "deepgram"} THEN cfg
    ELSE "localWhisper"

\* what the initialisation of engine p can answer: Deepgram needs the cached
\* proxy configuration, a local engine its model loaded (engine.rs 300-458)
EngineOutcomes(p) ==
    IF p = "deepgram" THEN {PROXY_CONFIG_CACHE = "valid"} ELSE BOOLEAN

\* stop_recording: the Parakeet model for a stored provider parakeet, the
\* Whisper model for anything else (recording_lifecycle.rs 318-394)
UnloadedProvider(cfg) == IF cfg = "parakeet" THEN "parakeet" ELSE "localWhisper"

\* a validation that reports its failure with the recording flag already set
ValidationFailedFlagSet(i) ==
    /\ startPc' = [startPc EXCEPT ![i] = "idle"]
    /\ startRet' = [startRet EXCEPT ![i] = "err_validation"]
    /\ lifecycleEvents' = BumpBy(lifecycleEvents, "transcription-error", 1)
    /\ IS_RECORDING' = TRUE

\* validate_transcription_ready fails: transcription-error is emitted and the
\* error returned (recording_helpers.rs 241-253, recording_lifecycle.rs 69)
ValidationFailed(i) ==
    /\ startPc' = [startPc EXCEPT ![i] = "idle"]
    /\ startRet' = [startRet EXCEPT ![i] = "err_validation"]
    /\ lifecycleEvents' = BumpBy(lifecycleEvents, "transcription-error", 1)
    /\ UNCHANGED IS_RECORDING

(* Device resolution (recording_helpers.rs 25-143).  A device name is      *)
(* "none" (no preference, no argument), "valid" (parse_audio_device finds  *)
(* it) or "invalid".                                                       *)

DeviceNames == {"none", "valid", "invalid"}

\* what a start call meets: the names it is given or has stored, and
\* whether default_input_device / default_output_device find a device
DeviceInputs ==
    [mic_name : DeviceNames, sys_name : DeviceNames,
     default_input : BOOLEAN, default_output : BOOLEAN]

\* resolve_microphone_from_preference (32-74): "Some" or "Err"
ResolveMicrophoneFromPreference(name, default_input) ==
    IF name = "valid" \/ default_input THEN "Some" ELSE "Err"

\* resolve_system_audio_from_preference (78-119): "Some" or "None"
ResolveSystemAudioFromPreference(name, default_output) ==
    IF name = "valid" \/ default_output THEN "Some" ELSE "None"

\* one device of parse_explicit_devices (126-140): "None", "Some" or "Err"
ParseExplicitDevice(name) ==
    CASE name = "none" -> "None"
      [] name = "valid" -> "Some"
      [] OTHER -> "Err"

\* the pair handed to initialize_recording
DevicePair(mic, sys) ==
    CASE mic = "Some" /\ sys = "Some" -> "mic+sys"
      [] mic = "Some" -> "mic"
      [] sys = "Some" -> "sys"
      [] OTHER -> "neither"

\* the devices of a start call, or "Err" when the call returns the error:
\* from the preferences (recording_lifecycle.rs 88-89) or from the explicit
\* names (140)
ResolveDevices(mode, in) ==
    IF mode = "preference"
    THEN LET mic == ResolveMicrophoneFromPreference(in.mic_name,
                                                    in.default_input)
             sys == ResolveSystemAudioFromPreference(in.sys_name,
                                                     in.default_output)
         IN  IF mic = "Err" THEN "Err" ELSE DevicePair(mic, sys)
    ELSE LET mic == ParseExplicitDevice(in.mic_name)
             sys == ParseExplicitDevice(in.sys_name)
         IN  IF mic = "Err" \/ sys = "Err" THEN "Err"
             ELSE DevicePair(mic, sys)

\* validate_transcription_ready, then the device resolution of
\* start_recording_with_meeting_name (recording_lifecycle.rs 68-89) or of
\* start_recording_with_devices_and_meeting (136-140).  The configured
\* provider is Deepgram: validation passes exactly when
\* has_cached_proxy_config holds (engine.rs 233-247)
StartPrepare(i, mode, in) ==
    /\ startPc[i] = "prepare"
    /\ \E ready \in ValidationOutcomes(ValidatedProvider(transcript_provider)) :
           IF ~ready
           THEN /\ ValidationFailed(i)
                /\ UNCHANGED <<startDevices, validatedProvider>>
           ELSE IF ResolveDevices(mode, in) = "Err"
           THEN /\ startPc' = [startPc EXCEPT ![i] = "idle"]
                /\ startRet' = [startRet EXCEPT ![i] = "err_prepare"]
                /\ UNCHANGED <<lifecycleEvents, IS_RECORDING, startDevices,
                               validatedProvider>>
           ELSE /\ startPc' = [startPc EXCEPT ![i] = "manager"]
                /\ startDevices' = [startDevices EXCEPT
                                       ![i] = ResolveDevices(mode, in)]
                /\ validatedProvider' =
                       [validatedProvider EXCEPT
                           ![i] = ValidatedProvider(transcript_provider)]
                /\ UNCHANGED <<startRet, lifecycleEvents, IS_RECORDING>>
    /\ UNCHANGED <<RECORDING_MANAGER, TRANSCRIPTION_TASK,
                   TRANSCRIPT_LISTENER_ID, listeners, startCalls, stopPc,
                   stopRet, stopMgr, stopTask, stopCalls, sessCapture,
                   sessTask, emittedBy, history, finalized,
                   SEQUENCE_COUNTER>>
    /\ UNCHANGED <<ConfigFrame, speechVars, stopLogVars, transcript_provider,
                   sessProvider>>

\* initialize_recording once manager.start_recording returned: the manager
\* is stored, the flag set, the speech flag reset, the task spawned
\* (recording_helpers.rs 174-200); then the recording-started event
\* (recording_lifecycle.rs 92-106)
StartManager(i, ok) ==
    /\ startPc[i] = "manager"
    /\ startPc' = [startPc EXCEPT ![i] = "idle"]
    /\ startDevices' = [startDevices EXCEPT ![i] = "none"]
    /\ validatedProvider' = [validatedProvider EXCEPT ![i] = "none"]
    /\ IF ok
       THEN LET s == Created + 1 IN
            /\ sessCapture' = [sessCapture EXCEPT ![s] = "open"]
            /\ RECORDING_MANAGER' = s
            /\ IS_RECORDING' = TRUE
            /\ SPEECH_DETECTED_EMITTED' = FALSE
            /\ speech_detected' = 0
            /\ sessTask' = [sessTask EXCEPT ![s] = "starting"]
            /\ TRANSCRIPTION_TASK' = s
            /\ listeners' = listeners \cup {s}
            /\ TRANSCRIPT_LISTENER_ID' = s
            /\ lifecycleEvents' = BumpBy(lifecycleEvents, "recording-started", 1)
            /\ startRet' = [startRet EXCEPT ![i] = "ok"]
            /\ sessProvider' = [sessProvider EXCEPT
                                   ![s].validated = validatedProvider[i]]
       ELSE /\ startRet' = [startRet EXCEPT ![i] = "err_manager"]
            /\ UNCHANGED <<sessCapture, RECORDING_MANAGER, IS_RECORDING,
                           sessTask, TRANSCRIPTION_TASK, listeners,
                           TRANSCRIPT_LISTENER_ID, lifecycleEvents,
                           speechVars, sessProvider>>
    /\ UNCHANGED <<startCalls, stopPc, stopRet, stopMgr, stopTask, stopCalls,
                   emittedBy, history, finalized, SEQUENCE_COUNTER>>
    /\ UNCHANGED <<ConfigFrame, stopLogVars, transcript_provider>>

(* The transcription task of a session *)

\* the segments the registered transcript-update listeners append for one
\* update: each looks up the global manager (recording_helpers.rs 207-227)
ListenersAppend(hist, id) ==
    IF RECORDING_MANAGER = 0 \/ listeners = {}
    THEN hist
    ELSE [hist EXCEPT ![RECORDING_MANAGER] =
              IF Cardinality(listeners) = 1 THEN Append(@, id)
              ELSE Append(Append(@, id), id)]

\* the task of session s emits an accepted transcript-update, with
\* speech-detected ahead of the first one (worker.rs 307-368), and the
\* listeners run
SessionEmit(s) ==
    /\ sessTask[s] = "running"
    /\ SEQUENCE_COUNTER < MaxSeq
    /\ SPEECH_DETECTED_EMITTED' = TRUE
    /\ speech_detected' = IF SPEECH_DETECTED_EMITTED THEN speech_detected
                                                     ELSE speech_detected + 1
    /\ SEQUENCE_COUNTER' = FetchAdd(SEQUENCE_COUNTER)
    /\ emittedBy' = [emittedBy EXCEPT ![s] = @ \cup {SEQUENCE_COUNTER}]
    /\ history' = ListenersAppend(history, SEQUENCE_COUNTER)
    /\ UNCHANGED <<IS_RECORDING, RECORDING_MANAGER, TRANSCRIPTION_TASK,
                   TRANSCRIPT_LISTENER_ID, listeners, startPc, startRet,
                   startCalls, stopPc, stopRet, stopMgr, stopTask, stopCalls,
                   sessCapture, sessTask, finalized, lifecycleEvents>>
    /\ UNCHANGED <<TaskFrame, startDevices, stopLogVars>>

\* the task of session s initialises its engine: get_or_init_transcription_engine
\* reads the stored provider and, for Deepgram, the proxy config again
\* (engine.rs 261-458); without an engine the task emits
\* transcription-error and returns (worker.rs 153-168)
SessionInit(s) ==
    /\ sessTask[s] = "starting"
    /\ \E made \in EngineOutcomes(EngineProvider(transcript_provider)) :
           IF made
           THEN /\ sessTask' = [sessTask EXCEPT ![s] = "running"]
                /\ sessProvider' =
                       [sessProvider EXCEPT
                           ![s].engine = EngineProvider(transcript_provider)]
                /\ UNCHANGED lifecycleEvents
           ELSE /\ sessTask' = [sessTask EXCEPT ![s] = "failed"]
                /\ lifecycleEvents' =
                       BumpBy(lifecycleEvents, "transcription-error", 1)
                /\ UNCHANGED sessProvider
    /\ UNCHANGED <<IS_RECORDING, RECORDING_MANAGER, TRANSCRIPTION_TASK,
                   TRANSCRIPT_LISTENER_ID, listeners, startPc, startRet,
                   startCalls, stopPc, stopRet, stopMgr, stopTask, stopCalls,
                   sessCapture, emittedBy, history, finalized,
                   SEQUENCE_COUNTER>>
    /\ UNCHANGED <<ConfigFrame, speechVars, startDevices, stopLogVars,
                   transcript_provider, validatedProvider>>

\* the task of session s completes: its capture channel closed and the
\* queue drained (worker.rs 540-654)
SessionFinish(s) ==
    /\ sessTask[s] = "running"
    /\ sessCapture[s] = "closed"
    /\ sessTask' = [sessTask EXCEPT ![s] = "finished"]
    /\ UNCHANGED <<IS_RECORDING, RECORDING_MANAGER, TRANSCRIPTION_TASK,
                   TRANSCRIPT_LISTENER_ID, listeners, startPc, startRet,
                   startCalls, stopPc, stopRet, stopMgr, stopTask, stopCalls,
                   sessCapture, emittedBy, history, finalized, lifecycleEvents,
                   SEQUENCE_COUNTER>>
    /\ UNCHANGED OtherFrame

\* a transcribe call of the task of session s connects c: connect_websocket
\* stores the write half (deepgram_provider.rs 329-407)
SessionConnect(s, c) ==
    /\ sessTask[s] = "running"
    /\ c \notin sessStreams[s]
    /\ sessStreams' = [sessStreams EXCEPT ![s] = @ \cup {c}]
    /\ UNCHANGED <<pipeVars, emitVars, streamVars, PROXY_CONFIG_CACHE,
                   startDevices, stopLogVars, pauseVars, drainExpired,
                   providerVars, accVars>>
    /\ UNCHANGED <<IS_RECORDING, RECORDING_MANAGER, TRANSCRIPTION_TASK,
                   TRANSCRIPT_LISTENER_ID, listeners, startPc, startRet,
                   startCalls, stopPc, stopRet, stopCalls, stopMgr, stopTask,
                   sessCapture, sessTask, emittedBy, history, finalized,
                   lifecycleEvents>>

\* a send of the task of session s fails on c: transcribe clears the
\* connection handle (deepgram_provider.rs 664-681)
SessionSendFail(s, c) ==
    /\ sessTask[s] = "running"
    /\ c \in sessStreams[s]
    /\ sessStreams' = [sessStreams EXCEPT ![s] = @ \ {c}]
    /\ UNCHANGED <<pipeVars, emitVars, streamVars, PROXY_CONFIG_CACHE,
                   startDevices, stopLogVars, pauseVars, drainExpired,
                   providerVars, accVars>>
    /\ UNCHANGED <<IS_RECORDING, RECORDING_MANAGER, TRANSCRIPTION_TASK,
                   TRANSCRIPT_LISTENER_ID, listeners, startPc, startRet,
                   startCalls, stopPc, stopRet, stopCalls, stopMgr, stopTask,
                   sessCapture, sessTask, emittedBy, history, finalized,
                   lifecycleEvents>>

(* The proxy configuration cache (deepgram_commands.rs) *)

\* set_deepgram_proxy_config stores a fresh configuration (53-80)
SetDeepgramProxyConfig ==
    /\ PROXY_CONFIG_CACHE = "none"
    /\ PROXY_CONFIG_CACHE' = "valid"
    /\ UNCHANGED <<pipeVars, emitVars, streamVars, startDevices,
                   stopLogVars, pauseVars, drainExpired, providerVars, accVars>>
    /\ UNCHANGED <<IS_RECORDING, RECORDING_MANAGER, TRANSCRIPTION_TASK,
                   TRANSCRIPT_LISTENER_ID, listeners, startPc, startRet,
                   startCalls, stopPc, stopRet, stopCalls, stopMgr, stopTask,
                   sessCapture, sessTask, emittedBy, history, finalized,
                   lifecycleEvents, sessStreams>>

\* clear_deepgram_proxy_config (128-138), or the configuration comes within
\* CONFIG_REFRESH_BUFFER_SECS of its expiry (147-157)
ClearDeepgramProxyConfig ==
    /\ PROXY_CONFIG_CACHE = "valid"
    /\ PROXY_CONFIG_CACHE' = "none"
    /\ UNCHANGED <<pipeVars, emitVars, streamVars, startDevices,
                   stopLogVars, pauseVars, drainExpired, providerVars, accVars>>
    /\ UNCHANGED <<IS_RECORDING, RECORDING_MANAGER, TRANSCRIPTION_TASK,
                   TRANSCRIPT_LISTENER_ID, listeners, startPc, startRet,
                   startCalls, stopPc, stopRet, stopCalls, stopMgr, stopTask,
                   sessCapture, sessTask, emittedBy, history, finalized,
                   lifecycleEvents, sessStreams>>

(* stop_recording (recording_lifecycle.rs 183-561) *)

MaxTicks == 1           \* updates the progress task of one stop call emits

\* the stages of recording-shutdown-progress in the order of the code
\* (201, 249, 310, 481, 540), closed by recording-stopped (547)
Stages == <<"stopping_audio", "processing_transcripts", "unloading_model",
            "finalizing", "complete", "recording-stopped">>

StageIndex(stage) == CHOOSE k \in 1..Len(Stages) : Stages[k] = stage

\* the "progress" field of a stage (203, 251, 277, 312, 483, 542)
Progress(stage) ==
    CASE stage = "stopping_audio" -> 20
      [] stage = "processing_transcripts" -> 40
      [] stage = "unloading_model" -> 70
      [] stage = "finalizing" -> 90
      [] OTHER -> 100

\* app.emit("recording-shutdown-progress", ..) for each of the stages
ShutdownProgress(ev, stages) ==
    BumpBy(ev, "recording-shutdown-progress", Len(stages))

\* a stop that announces the shutdown before it looks at the flag
StopIdleAnnounces(j) ==
    /\ stopRet' = [stopRet EXCEPT ![j] = "ok_idle"]
    /\ lifecycleEvents' = ShutdownProgress(lifecycleEvents, <<"stopping_audio">>)
    /\ UNCHANGED <<IS_RECORDING, RECORDING_MANAGER, TRANSCRIPTION_TASK,
                   TRANSCRIPT_LISTENER_ID, listeners, stopPc, stopMgr, stopTask,
                   sessCapture, finalized, stopLogVars>>

\* recording was not active: return Ok(()) (192-195)
StopIdle(j) ==
    /\ stopRet' = [stopRet EXCEPT ![j] = "ok_idle"]
    /\ UNCHANGED <<IS_RECORDING, RECORDING_MANAGER, TRANSCRIPTION_TASK,
                   TRANSCRIPT_LISTENER_ID, listeners, stopPc, stopMgr, stopTask,
                   sessCapture, finalized, lifecycleEvents, stopLogVars>>

\* IS_RECORDING.store(false), progress 100 and recording-stopped (517-560);
\* stages are the ones emitted earlier in the same step
StopComplete(j, stages) ==
    /\ IS_RECORDING' = FALSE
    /\ lifecycleEvents' =
           BumpBy(ShutdownProgress(lifecycleEvents, stages \o <<"complete">>),
                  "recording-stopped", 1)
    /\ shutdownLog' = shutdownLog \o stages \o <<"complete", "recording-stopped">>
    /\ stopPc' = [stopPc EXCEPT ![j] = "idle"]
    /\ stopRet' = [stopRet EXCEPT ![j] = "ok"]
    /\ stopMgr' = [stopMgr EXCEPT ![j] = 0]
    /\ UNCHANGED progress_task

\* unlisten, progress 40 and the take of the task handle (236-259); with a
\* task the progress task is spawned (264-283), without one the shutdown
\* goes on to the unload stage (302-314).  log is what the stop emitted in
\* earlier steps and stages what it emitted earlier in this one.
StopDrainSetup(j, log, stages) ==
    /\ listeners' = listeners \ {TRANSCRIPT_LISTENER_ID}
    /\ TRANSCRIPT_LISTENER_ID' = 0
    /\ stopTask' = [stopTask EXCEPT ![j] = TRANSCRIPTION_TASK]
    /\ TRANSCRIPTION_TASK' = 0
    /\ stopPc' = [stopPc EXCEPT ![j] =
                      IF TRANSCRIPTION_TASK # 0 THEN "wait" ELSE "unload"]
    /\ LET emitted == stages \o <<"processing_transcripts">> \o
                       (IF TRANSCRIPTION_TASK # 0
                        THEN <<>> ELSE <<"unloading_model">>)
       IN  /\ shutdownLog' = log \o emitted
           /\ lifecycleEvents' = ShutdownProgress(lifecycleEvents, emitted)
    /\ progress_task' = IF TRANSCRIPTION_TASK # 0
                        THEN [progress_task EXCEPT
                                 ![TRANSCRIPTION_TASK] = "sleep"]
                        ELSE progress_task

\* recording is active: progress 20, take the manager (197-211); without a
\* manager there are no streams to stop (219-222)
StopActive(j) ==
    /\ stopRet' = [stopRet EXCEPT ![j] = "pending"]
    /\ stopMgr' = [stopMgr EXCEPT ![j] = RECORDING_MANAGER]
    /\ RECORDING_MANAGER' = 0
    /\ IF RECORDING_MANAGER # 0
       THEN /\ stopPc' = [stopPc EXCEPT ![j] = "streams"]
            /\ lifecycleEvents' =
                   ShutdownProgress(lifecycleEvents, <<"stopping_audio">>)
            /\ shutdownLog' = <<"stopping_audio">>
            /\ UNCHANGED <<listeners, TRANSCRIPT_LISTENER_ID, stopTask,
                           TRANSCRIPTION_TASK, progress_task>>
       ELSE StopDrainSetup(j, <<>>, <<"stopping_audio">>)
    /\ UNCHANGED <<IS_RECORDING, sessCapture, finalized>>

StopBegin(j) ==
    /\ stopPc[j] = "idle"
    /\ stopCalls < MaxStopCalls
    /\ stopCalls' = stopCalls + 1
    /\ IF ~IS_RECORDING THEN StopIdle(j) ELSE StopActive(j)
    /\ UNCHANGED <<startPc, startRet, startCalls, sessTask, emittedBy, history,
                   SEQUENCE_COUNTER>>
    /\ UNCHANGED StopFrame

\* manager.stop_streams_and_force_flush returns (213-234); on Err the call
\* returns at once, with the streams stopped or not
StopStreams(j, ok, stopped) ==
    /\ stopPc[j] = "streams"
    /\ sessCapture' = IF ok \/ stopped
                      THEN [sessCapture EXCEPT ![stopMgr[j]] = "closed"]
                      ELSE sessCapture
    /\ IF ok
       THEN /\ StopDrainSetup(j, shutdownLog, <<>>)
            /\ UNCHANGED <<stopRet, stopMgr>>
       ELSE /\ stopPc' = [stopPc EXCEPT ![j] = "idle"]
            /\ stopRet' = [stopRet EXCEPT ![j] = "err_streams"]
            /\ stopMgr' = [stopMgr EXCEPT ![j] = 0]
            /\ UNCHANGED <<listeners, TRANSCRIPT_LISTENER_ID, stopTask,
                           TRANSCRIPTION_TASK, lifecycleEvents, stopLogVars>>
    /\ UNCHANGED <<IS_RECORDING, RECORDING_MANAGER, startPc, startRet,
                   startCalls, stopCalls, sessTask, emittedBy, history,
                   finalized, SEQUENCE_COUNTER>>
    /\ UNCHANGED StopFrame

\* progress_task.abort() (301): a task inside its sleep is dropped there, a
\* task that is past it runs on to its next await
AbortProgress(pc) == IF pc = "woken" THEN "aborted" ELSE "none"

\* the wait for the transcription task ends: the task completed, or the
\* 600 s timeout fired (286-299); the progress task is aborted (301); then
\* progress 70 (307-314)
StopWait(j, timedOut) ==
    /\ stopPc[j] = "wait"
    /\ IF timedOut
       THEN sessTask[stopTask[j]] \in {"starting", "running"}
       ELSE sessTask[stopTask[j]] \in {"failed", "finished"}
    /\ stopTask' = [stopTask EXCEPT ![j] = 0]
    /\ stopPc' = [stopPc EXCEPT ![j] = "unload"]
    /\ progress_task' = [progress_task EXCEPT
                            ![stopTask[j]] = AbortProgress(@)]
    /\ drainExpired' = IF timedOut THEN drainExpired \cup {stopTask[j]}
                                   ELSE drainExpired
    /\ lifecycleEvents' =
           ShutdownProgress(lifecycleEvents, <<"unloading_model">>)
    /\ shutdownLog' = Append(shutdownLog, "unloading_model")
    /\ UNCHANGED <<IS_RECORDING, RECORDING_MANAGER, TRANSCRIPTION_TASK,
                   TRANSCRIPT_LISTENER_ID, listeners, startPc, startRet,
                   startCalls, stopRet, stopMgr, stopCalls, sessCapture,
                   sessTask, emittedBy, history, finalized, SEQUENCE_COUNTER>>
    /\ UNCHANGED <<pipeVars, updates, mixed_transcribed, streamVars,
                   PROXY_CONFIG_CACHE, sessStreams, pauseVars, speechVars,
                   startDevices, providerVars, accVars>>

\* the provider lookup and the unload of its model (316-394), analytics
\* whatever their outcome (396-475), then progress 90 (477-485); without a
\* manager there is nothing to save (512-515)
StopUnload(j) ==
    /\ stopPc[j] = "unload"
    /\ sessProvider' =
           IF stopMgr[j] # 0
           THEN [sessProvider EXCEPT
                    ![stopMgr[j]].unloaded = UnloadedProvider(transcript_provider)]
           ELSE sessProvider
    /\ IF stopMgr[j] # 0
       THEN /\ stopPc' = [stopPc EXCEPT ![j] = "save"]
            /\ lifecycleEvents' =
                   ShutdownProgress(lifecycleEvents, <<"finalizing">>)
            /\ shutdownLog' = Append(shutdownLog, "finalizing")
            /\ UNCHANGED <<IS_RECORDING, stopRet, stopMgr, progress_task>>
       ELSE StopComplete(j, <<"finalizing">>)
    /\ UNCHANGED <<RECORDING_MANAGER, TRANSCRIPTION_TASK,
                   TRANSCRIPT_LISTENER_ID, listeners, startPc, startRet,
                   startCalls, stopTask, stopCalls, sessCapture, sessTask,
                   emittedBy, history, finalized, SEQUENCE_COUNTER>>
    /\ UNCHANGED <<ConfigFrame, speechVars, startDevices, transcript_provider,
                   validatedProvider>>

\* manager.save_recording_only returned, failed or timed out (487-515),
\* then the shutdown completes (517-560)
StopSave(j) ==
    /\ stopPc[j] = "save"
    /\ finalized' = finalized \cup {stopMgr[j]}
    /\ StopComplete(j, <<>>)
    /\ UNCHANGED <<RECORDING_MANAGER, TRANSCRIPTION_TASK,
                   TRANSCRIPT_LISTENER_ID, listeners, startPc, startRet,
                   startCalls, stopTask, stopCalls, sessCapture, sessTask,
                   emittedBy, history, SEQUENCE_COUNTER>>
    /\ UNCHANGED StopFrame

(* The progress task of a stop call (264-283) *)

ProgressFrame == <<IS_RECORDING, RECORDING_MANAGER, TRANSCRIPTION_TASK,
                   TRANSCRIPT_LISTENER_ID, listeners, startPc, startRet,
                   startCalls, stopPc, stopRet, stopCalls, stopMgr, stopTask,
                   sessCapture, sessTask, emittedBy, history, finalized,
                   PROXY_CONFIG_CACHE, sessStreams, startDevices, pipeVars,
                   emitVars, streamVars, pauseVars, drainExpired,
                   providerVars, accVars>>

\* updates of the progress task in the log of the current stop
Ticks == Len(SelectSeq(shutdownLog,
                       LAMBDA st : st = "processing_transcripts")) - 1

\* the 500 ms sleep is over (267)
ProgressWake(k) ==
    /\ progress_task[k] = "sleep"
    /\ Ticks < MaxTicks
    /\ progress_task' = [progress_task EXCEPT ![k] = "woken"]
    /\ UNCHANGED <<lifecycleEvents, shutdownLog>>
    /\ UNCHANGED ProgressFrame

\* the update with stage processing_transcripts and progress 40 (269-280),
\* then the next sleep, where an aborted task ends
ProgressEmit(k) ==
    /\ progress_task[k] \in {"woken", "aborted"}
    /\ lifecycleEvents' =
           ShutdownProgress(lifecycleEvents, <<"processing_transcripts">>)
    /\ shutdownLog' = Append(shutdownLog, "processing_transcripts")
    /\ progress_task' = [progress_task EXCEPT
                            ![k] = IF @ = "woken" THEN "sleep" ELSE "none"]
    /\ UNCHANGED ProgressFrame

(* pause_recording / resume_recording (recording_lifecycle.rs 567-623) *)

MaxPauseCalls == 2      \* calls of pause_recording and resume_recording

PauseFrame == <<IS_RECORDING, RECORDING_MANAGER, TRANSCRIPTION_TASK,
                TRANSCRIPT_LISTENER_ID, listeners, startPc, startRet,
                startCalls, stopPc, stopRet, stopCalls, stopMgr, stopTask,
                sessCapture, sessTask, emittedBy, history, finalized,
                PROXY_CONFIG_CACHE, sessStreams, startDevices, stopLogVars,
                drainExpired, providerVars, accVars, pipeVars, emitVars,
                streamVars>>

\* the IS_RECORDING check of a call (570-572, 599-601)
PauseResumeCheck(op) ==
    /\ pausePc = "idle"
    /\ pauseCalls < MaxPauseCalls
    /\ pauseCalls' = pauseCalls + 1
    /\ IF ~IS_RECORDING
       THEN pauseRet' = "err_inactive" /\ UNCHANGED pausePc
       ELSE pauseRet' = "pending" /\ pausePc' = op
    /\ UNCHANGED <<sessPaused, lifecycleEvents>>
    /\ UNCHANGED PauseFrame

\* what manager.pause_recording() and manager.resume_recording() do to the
\* capture of their session when they return Ok
ManagerPauseResume(op, paused, m) ==
    IF op = "pause" THEN paused \cup {m} ELSE paused \ {m}

\* a call that goes on without a recording manager
PauseResumeDelegateWithoutManager(ok) ==
    /\ pausePc \in {"pause", "resume"}
    /\ pausePc' = "idle"
    /\ IF ok
       THEN /\ sessPaused' = ManagerPauseResume(pausePc, sessPaused,
                                                RECORDING_MANAGER)
            /\ lifecycleEvents' =
                   Bump(lifecycleEvents,
                        IF pausePc = "pause" THEN "recording-paused"
                                             ELSE "recording-resumed")
            /\ pauseRet' = "ok"
       ELSE /\ pauseRet' = "err_manager"
            /\ UNCHANGED <<sessPaused, lifecycleEvents>>
    /\ UNCHANGED pauseCalls
    /\ UNCHANGED PauseFrame

\* under the lock of RECORDING_MANAGER: without a manager return Err
\* (590-592, 619-621); otherwise delegate to the manager, whose Err is
\* passed on (575-576, 604-605), and emit recording-paused or
\* recording-resumed (578-588, 607-617)
PauseResumeDelegate(ok) ==
    /\ pausePc \in {"pause", "resume"}
    /\ pausePc' = "idle"
    /\ IF RECORDING_MANAGER = 0
       THEN /\ pauseRet' = "err_no_manager"
            /\ UNCHANGED <<sessPaused, lifecycleEvents>>
       ELSE IF ok
       THEN /\ sessPaused' = ManagerPauseResume(pausePc, sessPaused,
                                                RECORDING_MANAGER)
            /\ lifecycleEvents' =
                   Bump(lifecycleEvents,
                        IF pausePc = "pause" THEN "recording-paused"
                                             ELSE "recording-resumed")
            /\ pauseRet' = "ok"
       ELSE /\ pauseRet' = "err_manager"
            /\ UNCHANGED <<sessPaused, lifecycleEvents>>
    /\ UNCHANGED pauseCalls
    /\ UNCHANGED PauseFrame

NextLife ==
    \/ \E i \in Starters :
           \/ StartCheck(i)
           \/ \E mode \in {"preference", "explicit"}, in \in DeviceInputs :
                  StartPrepare(i, mode, in)
           \/ \E ok \in BOOLEAN : StartManager(i, ok)
    \/ \E s \in Sessions : SessionInit(s) \/ SessionEmit(s) \/ SessionFinish(s)
    \/ \E s \in Sessions, c \in Conns :
           SessionConnect(s, c) \/ SessionSendFail(s, c)
    \/ SetDeepgramProxyConfig
    \/ ClearDeepgramProxyConfig
    \/ \E j \in SerialStoppers :
           \/ StopBegin(j)
           \/ \E ok, stopped \in BOOLEAN : StopStreams(j, ok, stopped)
           \/ \E timedOut \in BOOLEAN : StopWait(j, timedOut)
           \/ StopUnload(j)
           \/ StopSave(j)

\* the lifecycle does not look at the engine variant of the task
InitLife == InitPipe /\ engine = "local"

SpecLife == InitLife /\ [][NextLife]_vars

\* Specification of the lifecycle with pause and resume calls.  The steps
\* of the transcription task and of the progress task of a stop are left
\* out: they neither read nor write what pause and resume touch.
NextPause ==
    \/ \E i \in Starters :
           \/ StartCheck(i)
           \/ \E mode \in {"preference", "explicit"}, in \in DeviceInputs :
                  StartPrepare(i, mode, in)
           \/ \E ok \in BOOLEAN : StartManager(i, ok)
    \/ SetDeepgramProxyConfig
    \/ \E j \in SerialStoppers :
           \/ StopBegin(j)
           \/ \E ok, stopped \in BOOLEAN : StopStreams(j, ok, stopped)
           \/ \E timedOut \in BOOLEAN : StopWait(j, timedOut)
           \/ StopUnload(j)
           \/ StopSave(j)
    \/ \E op \in {"pause", "resume"} : PauseResumeCheck(op)
    \/ \E ok \in BOOLEAN : PauseResumeDelegate(ok)

SpecPause == InitLife /\ [][NextPause]_vars

\* Specification of the lifecycle with one caller of start_recording and of
\* stop_recording, the transcription task of each session and the progress
\* task of each stop.
NextProgress ==
    \/ StartCheck(1)
    \/ \E mode \in {"preference", "explicit"}, in \in DeviceInputs :
           StartPrepare(1, mode, in)
    \/ \E ok \in BOOLEAN : StartManager(1, ok)
    \/ SetDeepgramProxyConfig
    \/ \E s \in Sessions : SessionInit(s) \/ SessionFinish(s)
    \/ \E j \in SerialStoppers :
           \/ StopBegin(j)
           \/ \E ok, stopped \in BOOLEAN : StopStreams(j, ok, stopped)
           \/ \E timedOut \in BOOLEAN : StopWait(j, timedOut)
           \/ StopUnload(j)
           \/ StopSave(j)
    \/ \E k \in Sessions : ProgressWake(k) \/ ProgressEmit(k)

SpecProgress == InitLife /\ [][NextProgress]_vars

\* Specification of the lifecycle with two concurrent callers of
\* stop_recording, one caller of start_recording and the transcription
\* task of each session.
NextStops ==
    \/ StartCheck(1)
    \/ \E mode \in {"preference", "explicit"}, in \in DeviceInputs :
           StartPrepare(1, mode, in)
    \/ \E ok \in BOOLEAN : StartManager(1, ok)
    \/ SetDeepgramProxyConfig
    \/ \E s \in Sessions : SessionInit(s) \/ SessionEmit(s) \/ SessionFinish(s)
    \/ \E j \in Stoppers :
           \/ StopBegin(j)
           \/ \E ok, stopped \in BOOLEAN : StopStreams(j, ok, stopped)
           \/ \E timedOut \in BOOLEAN : StopWait(j, timedOut)
           \/ StopUnload(j)
           \/ StopSave(j)

SpecStops == InitLife /\ [][NextStops]_vars

\* save_transcript_config stores another provider
\* (database/repositories/setting.rs 170-188)
SaveTranscriptConfig(p) ==
    /\ p # transcript_provider
    /\ transcript_provider' = p
    /\ UNCHANGED <<pipeVars, emitVars, streamVars, validatedProvider,
                   sessProvider>>
    /\ UNCHANGED <<IS_RECORDING, RECORDING_MANAGER, TRANSCRIPTION_TASK,
                   TRANSCRIPT_LISTENER_ID, listeners, startPc, startRet,
                   startCalls, stopPc, stopRet, stopCalls, stopMgr, stopTask,
                   sessCapture, sessTask, emittedBy, history, finalized,
                   lifecycleEvents, PROXY_CONFIG_CACHE, sessStreams,
                   startDevices, stopLogVars, drainExpired, pauseVars,
                   accVars>>

\* Specification of the lifecycle with one caller of start_recording and of
\* stop_recording, the transcription task of each session, and a stored
\* transcript configuration that can change at any time.
NextProvider ==
    \/ StartCheck(1)
    \/ \E mode \in {"preference", "explicit"}, in \in DeviceInputs :
           StartPrepare(1, mode, in)
    \/ \E ok \in BOOLEAN : StartManager(1, ok)
    \/ SetDeepgramProxyConfig
    \/ \E p \in Providers : SaveTranscriptConfig(p)
    \/ \E s \in Sessions : SessionInit(s) \/ SessionFinish(s)
    \/ \E j \in SerialStoppers :
           \/ StopBegin(j)
           \/ \E ok, stopped \in BOOLEAN : StopStreams(j, ok, stopped)
           \/ \E timedOut \in BOOLEAN : StopWait(j, timedOut)
           \/ StopUnload(j)
           \/ StopSave(j)

SpecProvider == InitLife /\ [][NextProvider]_vars

\* Specification of one accumulator under any sequence of calls.
NextAccumulator ==
    \/ \E len \in ChunkLens : CallAdd(len)
    \/ \E elapsed \in BOOLEAN : CallCheckTimeout(elapsed)
    \/ CallFlush

SpecAccumulator == InitLife /\ [][NextAccumulator]_vars

----------------------------------------------------------------------------
(* Claims about the transcription task.                                    *)

TaskFinished == taskPc = "done"

\* C1: when the transcription task has finished (workers joined, verification
\* loop done), chunks_queued = chunks_completed + chunks_dropped.
C1_ReconciledAtFinish ==
    TaskFinished => chunks_queued = chunks_completed + chunks_dropped

C3_TaskCompletesAfterClose == (~captureOpen) ~> TaskFinished

----------------------------------------------------------------------------
(* Claims about the emitted transcript updates.                            *)

\* C4: transcript-update events are emitted in strictly increasing
\* sequence_id order, across the worker and the mic and sys reader tasks.
C4_EmittedInSequenceOrder ==
    \A i, j \in 1..Len(updates) :
        i < j => updates[i].sequence_id < updates[j].sequence_id

\* C5: no two emitted transcript updates share a sequence_id.
C5_SequenceIdsUnique ==
    \A i, j \in 1..Len(updates) :
        i # j => updates[i].sequence_id # updates[j].sequence_id

\* the mic reader and the sys reader have both emitted an update
C5_Witness ==
    \E i, j \in 1..Len(updates) :
        updates[i].source = "mic" /\ updates[j].source = "sys"

\* C6: after a send failure and a successful reconnect, a reader task spawned
\* before the reconnect emits nothing once the reconnect has completed: every
\* update of a reader is emitted while the generation of its reader is the
\* live generation of the connection.
C6_NoEmissionByStaleReader ==
    \A i \in 1..Len(updates) :
        updates[i].source \in Conns => updates[i].gen = updates[i].live

----------------------------------------------------------------------------
(* Claims about the recording lifecycle.                                   *)

\* C7: at most one recording session is active at a time, for every
\* interleaving of start calls.
C7_AtMostOneSession ==
    Cardinality({s \in Sessions : sessCapture[s] = "open"}) <= 1

\* C8: a stop_recording call that found the recording active returns with
\* the recording Idle (IS_RECORDING false), also when a shutdown step fails.
C8_StopEndsIdle ==
    [][\A j \in Stoppers :
           (stopPc[j] # "idle" /\ stopPc'[j] = "idle") => ~IS_RECORDING']_vars

\* C9: when a recording is finalized after its transcription task completed,
\* every transcript update the task emitted, the drain during stop included,
\* is in the history of that recording.
C9_AcceptedUpdatesInHistory ==
    \A s \in finalized :
        sessTask[s] = "finished" =>
            \A id \in emittedBy[s] :
                \E k \in 1..Len(history[s]) : history[s][k] = id

\* C10: a stop_recording call while Idle returns success at once, emits no
\* lifecycle event and changes no state.
C10_StopWhileIdleIsNoOp ==
    [][\A j \in Stoppers :
           (StopBegin(j) /\ ~IS_RECORDING)
           => /\ stopPc'[j] = "idle"
              /\ stopRet'[j] = "ok_idle"
              /\ UNCHANGED <<IS_RECORDING, RECORDING_MANAGER,
                             TRANSCRIPTION_TASK, TRANSCRIPT_LISTENER_ID,
                             listeners, stopMgr, stopTask, sessCapture,
                             sessTask, emittedBy, history, finalized,
                             lifecycleEvents>>]_vars

\* a stop call has returned through the not-active branch after a session
\* was recorded and stopped
C10_Witness ==
    \E j \in Stoppers :
        /\ stopRet[j] = "ok_idle"
        /\ lifecycleEvents["recording-stopped"] = 1

\* C11: a start call whose model validation fails returns the validation
\* error with nothing allocated: no recording manager, transcription task or
\* transcript listener is created and IS_RECORDING is left as it was.
C11_ValidationFailureAllocatesNothing ==
    [][\A i \in Starters :
           (startPc[i] = "prepare" /\ startRet'[i] = "err_validation")
           => /\ startPc'[i] = "idle"
              /\ UNCHANGED <<IS_RECORDING, RECORDING_MANAGER,
                             TRANSCRIPTION_TASK, TRANSCRIPT_LISTENER_ID,
                             listeners, sessCapture, sessTask>>]_vars

\* a start call has returned the validation error while Idle
C11_Witness ==
    /\ \E i \in Starters : startRet[i] = "err_validation"
    /\ ~IS_RECORDING /\ RECORDING_MANAGER = 0 /\ TRANSCRIPTION_TASK = 0
    /\ listeners = {}

\* C12: once start has returned success the transcription task of the
\* session has a usable engine: a recording is never active while its task
\* has exited because the engine could not be initialised.
C12_ActiveRecordingHasEngine ==
    \A s \in Sessions :
        (IS_RECORDING /\ TRANSCRIPTION_TASK = s
         /\ \E i \in Starters : startRet[i] = "ok")
        => sessTask[s] # "failed"

C14_AddReturnsAtLeastMinDuration ==
    [][captured' # captured
       => \A k \in 1..Len(dispOut') :
              dispOut'[k].device # "Mixed"
              => dispOut'[k].len >= MinDurationUnits]_vars

\* add has handed back an accumulated microphone chunk
C14_Witness ==
    /\ dispPc = "queue" /\ ~dispBreak
    /\ dispOut # <<>>
    /\ dispOut[1].device = "Microphone"
    /\ dispOut[1].len >= MinDurationUnits
    /\ mic_accumulator.buffer = 0
    /\ mic_accumulator.next_chunk_id = 1

\* C15: check_timeout hands back the whole buffer as one chunk exactly when
\* the buffer is not empty, flush_timeout has elapsed since the last add and
\* the buffer holds at least 0.5 s; otherwise it returns None and leaves the
\* accumulator as it was.
C15_CheckTimeoutFlushesFromHalfSecond ==
    \A acc \in {mic_accumulator, sys_accumulator} : \A elapsed \in BOOLEAN :
        LET r == AccCheckTimeout(acc, elapsed)
            due == acc.buffer # 0 /\ elapsed /\ acc.buffer >= TimeoutFloorUnits
        IN  /\ (r.out # <<>>) <=> due
            /\ due => /\ Len(r.out) = 1
                      /\ r.out[1].len = acc.buffer
                      /\ r.acc.buffer = 0
            /\ ~due => r.acc = acc

\* a timeout has flushed 0.6 s of microphone audio while the 0.3 s of the
\* system accumulator stayed in its buffer
C15_Witness ==
    /\ dispPc = "queue" /\ ~dispBreak
    /\ Len(dispOut) = 1
    /\ dispOut[1].device = "Microphone"
    /\ dispOut[1].len = 12
    /\ mic_accumulator.buffer = 0
    /\ sys_accumulator.buffer = 6

\* C16: ten microphone chunks of 0.2 s with min_duration 1.0 s and
\* max_duration 5.0 s, then shutdown, give exactly two accumulated chunks,
\* both dispatched, and the task ends with chunks_queued = 2,
\* chunks_completed = 2 and chunks_dropped = 0.
C16_ScenarioEndsWithTwoCompleted ==
    TaskFinished
    => /\ chunks_queued = 2
       /\ chunks_completed = 2
       /\ chunks_dropped = 0

\* C17: when stop goes on to unload the model after the transcription task
\* of its session has drained, every streaming connection of that session
\* (microphone and system) has been closed.
C17_StreamsClosedBeforeUnload ==
    [][\A j \in Stoppers :
           (stopPc[j] = "unload" /\ stopPc'[j] # "unload" /\ stopMgr[j] # 0
            /\ sessTask[stopMgr[j]] = "finished")
           => sessStreams[stopMgr[j]] = {}]_vars

\* C18: a call of ensure_connected makes at most MAX_RECONNECT_ATTEMPTS (3)
\* connection attempts, returns the connection error only when the third
\* attempt has failed, and makes no attempt while a connection is present.
C18_AtMostThreeConnectionAttempts ==
    [][(txPc \in {"connect", "reconnect"})
       => LET c == Conn(workerChunk.device) IN
          /\ txAttempt \in 1..MAX_RECONNECT_ATTEMPTS
          /\ persistent_ws[c] = 0
          /\ (txAttempt' # txAttempt)
                 => (txAttempt' = txAttempt + 1 /\ txPc' = txPc)
          /\ (txPc' = "idle")
                 => (/\ txAttempt = MAX_RECONNECT_ATTEMPTS
                     /\ persistent_ws'[c] = 0
                     /\ taskEvents'["transcription-warning"] =
                            taskEvents["transcription-warning"] + 1)
      ]_vars

\* a transcribe call has returned after three failed connection attempts
C18_Witness ==
    /\ txPc = "idle" /\ txAttempt = MAX_RECONNECT_ATTEMPTS
    /\ taskEvents["transcription-warning"] = 1
    /\ chunks_completed = 1
    /\ connection_generation = [c \in Conns |-> 0]

\* C19: when the send of a transcribe call fails, the call aborts the
\* current reader, clears the connection handle, the connected flag, the
\* chunk-info queue and the interim text, and reconnects; after the
\* reconnect it sends once more and returns whatever that send gives, so a
\* call sends at most twice.
C19_SendFailureReconnectsAndRetriesOnce ==
    [][LET c == Conn(workerChunk.device)
           h == reader_handle[c]
       IN  /\ (txPc = "send" /\ txPc' \notin {"send", "idle"})
               => /\ txPc' = "reconnect"
                  /\ h # 0 => rd'[c][h].aborted
                  /\ reader_handle'[c] = 0
                  /\ persistent_ws'[c] = 0
                  /\ ~is_connected'[c]
                  /\ chunk_info_queue'[c] = <<>>
                  /\ ~interim_text'[c]
           /\ (txPc # "reconnect" /\ txPc' = "reconnect") => txPc = "send"
           /\ (txPc = "reconnect")
               => txPc' \in {"reconnect", "resend", "idle"}
           /\ (txPc # "resend" /\ txPc' = "resend")
               => (txPc = "reconnect" /\ persistent_ws'[c] # 0)
           /\ (txPc = "resend") => txPc' \in {"resend", "idle"}
      ]_vars

\* the only transcribe call so far connected, failed to send, reconnected
\* and failed to send again
C19_Witness ==
    /\ fed = 1 /\ txPc = "idle"
    /\ chunks_completed = 1
    /\ taskEvents["transcription-warning"] = 1
    /\ connection_generation["mic"] = 2
    /\ persistent_ws["mic"] = 2

----------------------------------------------------------------------------
(* Claims about the events of a session and the routing of chunks.         *)

\* C21: within one recording session at most one speech-detected event is
\* emitted, whatever the interleaving of the worker and the emitters of the
\* microphone and system readers.
C21_AtMostOneSpeechDetected == speech_detected <= 1

\* C22: a chunk whose transcription ends in AudioTooShort or ModelNotLoaded
\* is counted completed and no transcription-warning or transcription-error
\* is emitted for it, whatever the engine variant.
C22_SkippedChunkIsSilent ==
    [][\A res \in Results(engine, workerChunk) :
           (/\ res.kind = "err"
            /\ res.error \in {"AudioTooShort", "ModelNotLoaded"}
            /\ WorkerProcess(TRUE, res))
           => /\ chunks_completed' = chunks_completed + 1
              /\ taskEvents' = taskEvents]_vars

\* C23: a chunk tagged Mixed is never passed to the transcribe of an engine,
\* neither a local engine nor a trait provider nor a streaming connection.
C23_MixedNeverTranscribed == ~mixed_transcribed

\* C24: start fails when no microphone can be resolved, and goes on in
\* microphone-only mode when only the system-audio device cannot be
\* resolved, for the resolution from preferences and for explicit names.
\* (A start with explicit devices and no microphone name hands None to the
\* recording manager; what the manager does with it is outside this model.)
C24_MicrophoneFatalSystemOptional ==
    [][\A i \in Starters, mode \in {"preference", "explicit"},
          in \in DeviceInputs :
           (PROXY_CONFIG_CACHE = "valid" /\ StartPrepare(i, mode, in))
           => /\ (\/ in.mic_name = "invalid" /\ mode = "explicit"
                  \/ in.mic_name # "valid" /\ ~in.default_input
                         /\ mode = "preference")
                     => startRet'[i] = "err_prepare"
              /\ (/\ in.mic_name = "valid"
                  /\ in.sys_name = "invalid" /\ ~in.default_output)
                     => /\ startPc'[i] = "manager"
                        /\ startDevices'[i] = "mic"]_vars

----------------------------------------------------------------------------
(* Claims about the final verification loop and the worker branches.       *)

\* C25: after the join the verification loop reads the counters again at
\* most 10 times, and transcript-chunk-loss-detected is emitted exactly when
\* queued # completed + dropped still holds after the 10th retry, with
\* chunks_lost_in_processing = queued - (completed + dropped).
C25_LossDeclaredAfterTenRetries ==
    [][/\ verification_attempts' <= MAX_VERIFICATION_ATTEMPTS
       /\ (taskPc = "verify" /\ taskPc' = "done")
             => (taskEvents'["transcript-chunk-loss-detected"]
                     # taskEvents["transcript-chunk-loss-detected"]
                 <=> /\ chunks_queued # chunks_completed + chunks_dropped
                     /\ verification_attempts = MAX_VERIFICATION_ATTEMPTS)
       /\ taskEvents'["transcript-chunk-loss-detected"]
              # taskEvents["transcript-chunk-loss-detected"]
             => /\ taskPc = "verify" /\ taskPc' = "done"
                /\ taskEvents'["transcript-chunk-loss-detected"] = 1
                /\ chunks_lost_in_processing' =
                       chunks_queued - (chunks_completed + chunks_dropped)
       /\ (taskPc = "verify" /\ taskPc' = "verify")
             => /\ chunks_queued # chunks_completed + chunks_dropped
                /\ verification_attempts' = verification_attempts + 1]_vars

\* the loop has used its ten retries and reported one chunk lost in
\* processing
C25_Witness ==
    /\ taskPc = "done"
    /\ verification_attempts = MAX_VERIFICATION_ATTEMPTS
    /\ taskEvents["transcript-chunk-loss-detected"] = 1
    /\ chunks_lost_in_processing = 1
    /\ chunks_queued = chunks_completed + chunks_dropped + 1

----------------------------------------------------------------------------
(* Claims about the events of a stop.                                      *)

\* C26: during one stop the recording-shutdown-progress events come in the
\* stage order stopping_audio, processing_transcripts, unloading_model,
\* finalizing, complete, with progress values in 0..100 that never
\* decrease, and recording-stopped comes after the complete stage.
C26_ShutdownStagesInOrder ==
    /\ \A a, b \in 1..Len(shutdownLog) :
           a < b => /\ StageIndex(shutdownLog[a]) <= StageIndex(shutdownLog[b])
                    /\ Progress(shutdownLog[a]) <= Progress(shutdownLog[b])
    /\ \A a \in 1..Len(shutdownLog) :
           /\ Progress(shutdownLog[a]) \in 0..100
           /\ shutdownLog[a] = "recording-stopped"
                 => a > 1 /\ shutdownLog[a - 1] = "complete"

----------------------------------------------------------------------------
(* Claims about the branches of the worker loop.                           *)

\* C27: every chunk the worker dequeues increments chunks_completed exactly
\* once, whichever branch handles it: the counter stands still while the
\* worker holds the chunk, and the step that lets go of the chunk adds one
\* and takes the worker back to the dequeue.
C27_DequeuedChunkCompletedOnce ==
    [][/\ (workerChunk # NoChunk /\ workerChunk' = NoChunk)
            => (/\ chunks_completed' = chunks_completed + 1
                /\ workerPc' = "recv")
       /\ (workerChunk' # NoChunk \/ workerChunk = NoChunk)
            => (chunks_completed' = chunks_completed)]_vars

\* C28: the worker emits a transcript-update for a result exactly when the
\* trimmed text is not empty and the confidence is absent or at least 0.01
\* (trait provider) or 0.0 (local engine); a result with empty text brings
\* no event at all.
C28_UpdateIffNonEmptyAndConfident ==
    [][/\ \A res \in Results(engine, workerChunk) :
              (WorkerProcess(TRUE, res) /\ res.kind = "ok")
                  => /\ updates' = updates
                     /\ \/ Trim(res.text) = "empty"
                        \/ /\ res.confidence # NoConfidence
                           /\ res.confidence <
                                  (IF engine = "provider" THEN 1 ELSE 0)
                     /\ (Trim(res.text) = "empty") => (taskEvents' = taskEvents)
       /\ (workerPc = "emit" /\ workerPc' # "emit")
              => (/\ Len(updates') = Len(updates) + 1
                  /\ updates'[Len(updates')].sequence_id = workerSeq)
       /\ (workerPc # "emit") => (updates' = updates)]_vars

----------------------------------------------------------------------------
(* Claims about the chunk-info queue of a streaming connection.            *)

\* the entry of the chunk the worker has queued and not sent yet
PushedNotSent(c) ==
    IF /\ workerPc \in {"queued", "tx"}
       /\ workerChunk.device # "Mixed" /\ Conn(workerChunk.device) = c
    THEN <<workerChunk.chunk_id>>
    ELSE <<>>

\* C29: on each streaming connection the chunk info is pushed before the
\* chunk is sent, and the queue holds, in the order of sending, the chunks
\* sent on the connection that are not finalised yet, a chunk re-sent
\* after a reconnect included; the entry of a chunk that is queued and
\* about to be sent comes last.
C29_QueueOrderIsSendOrder ==
    \A c \in Conns : chunk_info_queue[c] = in_flight[c] \o PushedNotSent(c)

\* C30: for every inbound result marked final the reader takes exactly one
\* entry off the front of the chunk-info queue, or none when the queue is
\* empty, and emits an update that is not partial and carries the
\* timestamps of that entry, or (0, 0, 0); it never waits for the queue.
C30_FinalResultPopsAndEmits ==
    [][\A c \in Conns, g \in Gens :
          /\ \A kind \in {"final", "final_empty"} :
                 (ReaderNext(c, g, kind) /\ connection_generation[c] = g)
                     => (rd'[c][g].pc = "checked" /\ rd'[c][g].kind = "final")
          /\ (/\ rd[c][g].pc = "checked" /\ rd[c][g].kind = "final"
              /\ rd'[c][g].pc # "checked")
                 => /\ rd'[c][g].pc = "assigned"
                    /\ rd'[c][g].info = FrontInfo(chunk_info_queue[c])
                    /\ chunk_info_queue'[c] =
                           IF chunk_info_queue[c] = <<>>
                           THEN <<>> ELSE Tail(chunk_info_queue[c])
          /\ (/\ rd[c][g].pc \in {"assigned", "speech"}
              /\ rd[c][g].kind = "final"
              /\ rd'[c][g].pc \notin {"assigned", "speech"})
                 => /\ Len(updates') = Len(updates) + 1
                    /\ updates'[Len(updates')].is_partial = FALSE
                    /\ updates'[Len(updates')].info = rd[c][g].info
                    /\ updates'[Len(updates')].sequence_id = rd[c][g].seq]_vars

----------------------------------------------------------------------------
(* Claims about the generation of a streaming connection.                  *)

\* the readers of connection c that still run with the live generation
LiveReaders(c) ==
    {h \in Gens : /\ rd[c][h].pc \notin {"none", "done"}
                  /\ rd[c][h].my_generation = connection_generation[c]}

\* C32: connection_generation never decreases, it grows by exactly 1 with
\* each successful connect and with nothing else, and at any time at most
\* one running reader of a connection holds the live generation.
C32_GenerationGrowsByOneWithOneLiveReader ==
    /\ [](\A c \in Conns : Cardinality(LiveReaders(c)) <= 1)
    /\ [][\A c \in Conns :
             /\ connection_generation'[c] >= connection_generation[c]
             /\ (reader_handle'[c] \notin {0, reader_handle[c]})
                    => (connection_generation'[c] = connection_generation[c] + 1)
             /\ (connection_generation'[c] # connection_generation[c])
                    => /\ connection_generation'[c] = connection_generation[c] + 1
                       /\ reader_handle'[c] \notin {0, reader_handle[c]}]_vars

\* a connection was opened a second time while the reader of the first
\* socket, aborted, is still running under the old generation
C32_Witness ==
    \E c \in Conns :
        /\ connection_generation[c] = 2
        /\ rd[c][2].pc = "wait" /\ rd[c][2].my_generation = 2
        /\ rd[c][1].pc \in {"wait", "checked", "assigned"}
        /\ rd[c][1].my_generation = 1

----------------------------------------------------------------------------
(* Claims about pause and resume.                                          *)

\* C33: pause and resume only delegate to the recording manager: a step of
\* a call leaves IS_RECORDING, the manager slot, the transcription task and
\* the transcript listener as they are and touches the capture of the
\* stored manager only; a call that finds no active recording or no
\* manager returns an error without any effect.
C33_PauseResumeOnlyDelegate ==
    [][(pausePc' # pausePc \/ pauseCalls' # pauseCalls)
          => /\ UNCHANGED <<IS_RECORDING, RECORDING_MANAGER,
                            TRANSCRIPTION_TASK, TRANSCRIPT_LISTENER_ID,
                            listeners, sessTask, sessCapture>>
             /\ sessPaused' \in {sessPaused,
                                 sessPaused \cup {RECORDING_MANAGER},
                                 sessPaused \ {RECORDING_MANAGER}}
             /\ (pauseCalls' # pauseCalls /\ ~IS_RECORDING)
                   => /\ pauseRet' = "err_inactive" /\ pausePc' = "idle"
                      /\ UNCHANGED <<sessPaused, lifecycleEvents>>
             /\ (pausePc # "idle" /\ RECORDING_MANAGER = 0)
                   => /\ pauseRet' = "err_no_manager" /\ pausePc' = "idle"
                      /\ UNCHANGED <<sessPaused, lifecycleEvents>>]_vars

\* a pause went through to the manager of the running session
C33_Witness ==
    /\ pauseRet = "ok" /\ pausePc = "idle"
    /\ IS_RECORDING /\ TRANSCRIPTION_TASK # 0
    /\ RECORDING_MANAGER # 0 /\ RECORDING_MANAGER \in sessPaused
    /\ lifecycleEvents["recording-paused"] = 1

----------------------------------------------------------------------------
(* Claims about concurrent calls of stop_recording.                        *)

\* sessions whose transcription task still has chunks to process
Draining == {s \in Sessions : sessTask[s] \in {"starting", "running"}}

\* C34: whatever the interleaving of stop_recording calls, a call unloads
\* the transcription model only when the task of every session has
\* finished its chunks or was waited for until the 600 s ceiling.
C34_UnloadOnlyAfterDrain ==
    [][\A j \in Stoppers :
          (stopPc[j] = "unload" /\ stopPc'[j] # "unload")
              => Draining \subseteq drainExpired]_vars

\* C40: for each recording session the transition to idle and the
\* recording-stopped event happen exactly once, also when stop_recording is
\* called again or concurrently during a stop: recording-stopped is only
\* emitted by the step that takes IS_RECORDING from true to false, once,
\* and never more often than sessions were started.
C40_StoppedOncePerSession ==
    /\ [](lifecycleEvents["recording-stopped"] <= Created)
    /\ [][(lifecycleEvents'["recording-stopped"]
              # lifecycleEvents["recording-stopped"])
             => /\ IS_RECORDING /\ ~IS_RECORDING'
                /\ lifecycleEvents'["recording-stopped"]
                      = lifecycleEvents["recording-stopped"] + 1]_vars

\* C35: the provider validated at the start of a session, the engine its
\* task uses and the engine whose model the stop unloads are the same
\* provider, whatever happens to the stored transcript configuration.
C35_ProviderResolvedOnce ==
    \A s \in Sessions :
        LET r == sessProvider[s] IN
        /\ r.engine # "none" => r.engine = r.validated
        /\ r.unloaded # "none" => r.unloaded = r.validated
        /\ (r.unloaded # "none" /\ r.engine # "none") => r.unloaded = r.engine

----------------------------------------------------------------------------
(* Claims about the end of the dispatcher loop and the accumulators.       *)

\* the dispatcher has left its loop (worker.rs 561)
LoopEnded == dispPc \in {"break", "done"}

\* C36: when the dispatcher loop has ended, the microphone and the system
\* accumulator are empty, no flushed chunk is left to dispatch, and every
\* chunk the accumulators returned was counted in chunks_queued.
C36_LoopEndsWithEmptyAccumulators ==
    LoopEnded =>
        /\ mic_accumulator.buffer = 0
        /\ sys_accumulator.buffer = 0
        /\ dispOut = <<>>
        /\ chunks_queued >= mic_accumulator.next_chunk_id
                                + sys_accumulator.next_chunk_id
        /\ chunks_queued <= captured

\* the loop ended after one 0.3 s chunk of each device: both were below the
\* minimum duration and the timeout floor, so the flush at the closed
\* channel returned them, and both were queued
C36_Witness ==
    /\ LoopEnded
    /\ captured = 2
    /\ mic_accumulator.next_chunk_id = 1
    /\ sys_accumulator.next_chunk_id = 1
    /\ chunks_queued = 2
    /\ workerChunk.len = 6

----------------------------------------------------------------------------
(* Claims about transcribe on a streaming connection.                      *)

\* the chunk the worker is about to transcribe goes to a streaming
\* connection and has fewer than 1600 samples
TooShort ==
    /\ workerChunk.device # "Mixed"
    /\ workerChunk.len < MinimumSampleUnits

\* C37: a transcribe of fewer than 1600 samples returns at once, without a
\* connection attempt and with the connection handle, the generation, the
\* reader and the connected flag of every connection as they were.
C37_TooShortLeavesConnectionAlone ==
    [][(TranscribeBegin /\ TooShort)
           => /\ txPc' = "idle"
              /\ workerPc' = "recv"
              /\ UNCHANGED <<persistent_ws, connection_generation,
                             reader_handle, is_connected, rd, txAttempt,
                             taskEvents>>]_vars

\* the second chunk was too short and was answered while its connection
\* was up with a reader: its entry is in the queue behind the one of the
\* first chunk, and it was never sent
C37_Witness ==
    /\ txPc = "idle" /\ workerPc = "recv"
    /\ fed >= 2
    /\ chunks_completed = fed
    /\ \E c \in Conns :
           /\ persistent_ws[c] # 0
           /\ is_connected[c]
           /\ reader_handle[c] # 0
           /\ chunk_info_queue[c] = <<0, 1>>
           /\ in_flight[c] = <<0>>

----------------------------------------------------------------------------
(* Claims about the chunk counters of a session.                           *)

\* C38: in every state of a session chunks_completed + chunks_dropped is at
\* most chunks_queued, and no step makes one of the three counters smaller.
C38_CountersBoundedAndMonotonic ==
    /\ [](chunks_completed + chunks_dropped <= chunks_queued)
    /\ [][/\ chunks_queued' >= chunks_queued
           /\ chunks_completed' >= chunks_completed
           /\ chunks_dropped' >= chunks_dropped]_vars

\* a session in which a chunk was dropped and another one completed, with
\* every queued chunk accounted for
C38_Witness ==
    /\ chunks_dropped >= 1
    /\ chunks_completed >= 1
    /\ chunks_completed + chunks_dropped = chunks_queued

----------------------------------------------------------------------------
(* Claims about one accumulator.                                           *)

RECURSIVE Concatenated(_)
\* the data of a sequence of chunks, one after the other
Concatenated(chunks) ==
    IF chunks = <<>> THEN <<>>
    ELSE Head(chunks).data \o Concatenated(Tail(chunks))

\* C39: after any sequence of add, check_timeout and flush calls the
\* chunks returned so far followed by the buffer are the samples added, in
\* order; the buffer is empty right after a call that returned a chunk;
\* the chunk ids returned are 0, 1, 2, ... in order.
C39_AccumulatorKeepsSamples ==
    /\ Concatenated(returned) \o accumulator.buffer = added
    /\ last_out # <<>> => accumulator.buffer = <<>>
    /\ \A k \in 1..Len(returned) : returned[k].chunk_id = k - 1

\* add, check_timeout and flush have each returned a chunk (0.8 s at the
\* minimum duration, 0.5 s at the timeout, 0.3 s at the flush) and audio
\* is buffered again
C39_Witness ==
    /\ Len(returned) = 3
    /\ {Len(returned[k].data) : k \in 1..3} = {16, 10, 6}
    /\ accumulator.buffer # <<>>

====
